---- MODULE Spec2Model ----
(***************************************************************************)
(* A model of the nuxt variable-fonts module: the font pipeline            *)
(* (src/index.ts processFonts, src/lib/font-processor.ts FontProcessor)    *)
(* and the change-aware cache (src/unnamed/part_002 CacheManager).         *)
(*                                                                         *)
(* Conventions.                                                            *)
(*  - An optional JavaScript value is a sequence of length at most one:    *)
(*    <<>> is undefined, <<v>> is the value v.                             *)
(*  - A font file name is [parts, ext]: the name without its extension     *)
(*    split on "-", and the extension.                                     *)
(*  - A path is [prefix, pkg, file]: prefix is the character sequence in   *)
(*    front of "node_modules/<pkg>/files/<file>".                          *)
(*  - sha256 / md5 are taken to be collision free: a digest is modelled by *)
(*    the value that is digested.                                          *)
(***************************************************************************)
EXTENDS Integers, Sequences, FiniteSets, TLC

(***************************************************************************)
(* Bounds of the model                                                     *)
(***************************************************************************)
MaxRuns == 2
MaxChanges == 1
cacheTTL == 3000
\* the calls of processFonts that may start while another one is suspended
MaxOverlap == 1

(***************************************************************************)
(* Generic helpers                                                         *)
(***************************************************************************)
IsDef(o) == o # <<>>

Range(s) == {s[i] : i \in 1..Len(s)}

IsPrefix(p, s) == Len(p) <= Len(s) /\ SubSeq(s, 1, Len(p)) = p

RECURSIVE SeqSum(_)
SeqSum(s) == IF s = <<>> THEN 0 ELSE Head(s) + SeqSum(Tail(s))

(* Array.prototype.sort is stable: the positions 1..Len(keys) in ascending *)
(* order of key, equal keys in their original order.                       *)
RECURSIVE StableOrder(_, _)
StableOrder(keys, n) ==
    IF n = 0 THEN <<>>
    ELSE LET prev == StableOrder(keys, n - 1)
             \* n goes after every earlier position whose key is <= keys[n]
             cnt == Cardinality({j \in 1..Len(prev) : keys[prev[j]] <= keys[n]})
             \* prev is sorted, so those positions are a prefix of prev
         IN  SubSeq(prev, 1, cnt) \o <<n>> \o SubSeq(prev, cnt + 1, Len(prev))

SortByKeys(s, keys) ==
    LET ord == StableOrder(keys, Len(s))
    IN  [i \in 1..Len(s) |-> s[ord[i]]]

(***************************************************************************)
(* JavaScript string order on the strings the model uses                   *)
(***************************************************************************)
\* UTF-16 code unit order (the default Array.prototype.sort order)
Lexicon ==
    <<"FILL", "GRAD", "cyrillic", "italic", "latin", "latin-ext", "normal", "opsz", "wght">>

StrRank(s) == CHOOSE i \in 1..Len(Lexicon) : Lexicon[i] = s

NumDigits(n) == IF n < 10 THEN 1 ELSE IF n < 100 THEN 2 ELSE IF n < 1000 THEN 3 ELSE 4

\* numbers are compared as their decimal strings: "100" < "1000" < "400"
JsNumKey(n) ==
    LET d == NumDigits(n)
        scaled == IF d = 1 THEN n * 1000 ELSE IF d = 2 THEN n * 100
                  ELSE IF d = 3 THEN n * 10 ELSE n
    IN  scaled * 10 + d

\* String.prototype.localeCompare on the package identifiers of the model
PackageOrder == <<"material-symbols", "pkg-a", "pkg-b">>

PkgRank(p) == CHOOSE i \in 1..Len(PackageOrder) : PackageOrder[i] = p

\* font.weights?.sort(), font.styles?.sort(), ... : undefined stays undefined
SortOptStrings(o) ==
    IF IsDef(o) THEN <<SortByKeys(o[1], [i \in 1..Len(o[1]) |-> StrRank(o[1][i])])>> ELSE o

SortOptNumbers(o) ==
    IF IsDef(o) THEN <<SortByKeys(o[1], [i \in 1..Len(o[1]) |-> JsNumKey(o[1][i])])>> ELSE o

(***************************************************************************)
(* CacheManager.generateConfigHash                                         *)
(***************************************************************************)
\* the in-place effect of generateConfigHash on one FontConfig
SortedInPlace(font) ==
    [font EXCEPT !.weights = SortOptNumbers(font.weights),
                 !.styles = SortOptStrings(font.styles),
                 !.subsets = SortOptStrings(font.subsets),
                 !.axes = SortOptStrings(font.axes)]

\* the fonts array after generateConfigHash has run on it
FontsAfterHash(fonts) == [i \in 1..Len(fonts) |-> SortedInPlace(fonts[i])]

\* one element of configData; fallback and unicodeRanges are not part of it
ConfigDataOf(font) ==
    [package |-> font.package,
     family |-> font.family,
     variable |-> font.variable,
     weights |-> SortOptNumbers(font.weights),
     styles |-> SortOptStrings(font.styles),
     subsets |-> SortOptStrings(font.subsets),
     axes |-> SortOptStrings(font.axes),
     preload |-> font.preload,
     display |-> font.display,
     priority |-> font.priority]

generateConfigHash(fonts) ==
    LET configData == [i \in 1..Len(fonts) |-> ConfigDataOf(fonts[i])]
    IN  SortByKeys(configData, [i \in 1..Len(fonts) |-> PkgRank(fonts[i].package)])

(***************************************************************************)
(* The packages of the model and what they hold on disk                    *)
(***************************************************************************)
Packages == {"pkg-a", "material-symbols"}

File(parts, ext) == [parts |-> parts, ext |-> ext]

\* a directory entry of <package>/files: name, content, and whether
\* readFileSync succeeds on it
Entry(parts, ext, content, readable) ==
    [name |-> File(parts, ext), content |-> content, readable |-> readable]

NoRanges == [s \in {} |-> ""]

\* the parsed metadata file of a package
MetadataJson(pkg) ==
    IF pkg = "pkg-a"
    THEN [family |-> "Demo",
          subsets |-> <<<<"latin">>>>, weights |-> <<<<400, 700>>>>,
          styles |-> <<<<"normal", "italic">>>>,
          axes |-> [wght |-> [min |-> 400, max |-> 700, default |-> 400]],
          unicodeRange |-> NoRanges]
    ELSE [family |-> "Material Symbols",
          subsets |-> <<<<"latin">>>>, weights |-> <<<<400>>>>,
          styles |-> <<<<"normal">>>>,
          axes |-> [FILL |-> [min |-> 0, max |-> 1, default |-> 0],
                    wght |-> [min |-> 100, max |-> 700, default |-> 400],
                    GRAD |-> [min |-> 0, max |-> 200, default |-> 0],
                    opsz |-> [min |-> 20, max |-> 48, default |-> 24]],
          unicodeRange |-> NoRanges]

\* metadata: {} as FontMetadata, the metadata of a failed entry
EmptyMetadata == [axes |-> [a \in {} |-> 0]]

\* the files directory of a freshly installed package, in directory order
InstalledFiles(pkg) ==
    IF pkg = "pkg-a"
    THEN <<Entry(<<"demo", "latin", "wght", "normal">>, ".woff2", "c1", TRUE),
           Entry(<<"demo", "latin", "wght", "italic">>, ".woff2", "c2", TRUE),
           Entry(<<"demo", "latin", "400", "normal">>, ".woff2", "c3", TRUE)>>
    ELSE <<Entry(<<"ms", "latin", "full", "normal">>, ".woff2", "c4", TRUE)>>

\* a package directory: where it is installed ("none", "plain": node_modules/<pkg>,
\* "pnpm": node_modules/.pnpm/<pkg>@<v>/node_modules/<pkg>), which metadata file
\* it has ("none", "metadata.json", "font-metadata.json") and that file's mtime,
\* the mtime of its package.json, whether files/ exists, and the entries of files/
PackageDir(loc, meta, filesDir, files) ==
    [loc |-> loc, meta |-> meta, metaMtime |-> 0, pkgJsonMtime |-> 0,
     filesDir |-> filesDir, files |-> files]

Absent == PackageDir("none", "none", FALSE, <<>>)

\* files/ in which readFileSync fails on the entry at position k
WithUnreadable(files, k) ==
    [i \in 1..Len(files) |-> IF i = k THEN [files[i] EXCEPT !.readable = FALSE] ELSE files[i]]

(***************************************************************************)
(* FontProcessor.resolvePackagePath, readFontMetadata                      *)
(***************************************************************************)
\* the store the package is found in, or "none" (null)
resolvePackagePath(d, pkg) == d[pkg].loc

\* config.unicodeRanges spread over metadata.unicodeRange
MergeRanges(base, over) ==
    [s \in DOMAIN base \cup DOMAIN over |-> IF s \in DOMAIN over THEN over[s] ELSE base[s]]

\* a package directory whose metadata file has the given content
WithMetadata(dir, metadata) ==
    [k \in DOMAIN dir \cup {"metadata"} |-> IF k = "metadata" THEN metadata ELSE dir[k]]

\* JSON.parse of the metadata file of a package directory: the content the
\* directory was given, else the content the package ships
ParsedMetadata(d, pkg) ==
    IF "metadata" \in DOMAIN d[pkg] THEN d[pkg].metadata ELSE MetadataJson(pkg)

\* <<>> is null
readFontMetadata(d, fontConfig) ==
    LET pkg == fontConfig.package
        metadata == ParsedMetadata(d, pkg)
    IN  IF d[pkg].meta = "metadata.json"
        THEN IF IsDef(fontConfig.unicodeRanges)
             THEN <<[metadata EXCEPT !.unicodeRange =
                        MergeRanges(metadata.unicodeRange, fontConfig.unicodeRanges[1])]>>
             ELSE <<metadata>>
        ELSE IF d[pkg].meta = "font-metadata.json" THEN <<metadata>>
        ELSE <<>>

(***************************************************************************)
(* FontProcessor.buildFilePatterns, parseFileName, findFontFiles           *)
(***************************************************************************)
WeightUniverse == {100, 300, 400, 500, 700}

\* a subset name split on "-"
SubsetTokens(subset) ==
    IF subset = "latin-ext" THEN <<"latin", "ext">>
    ELSE IF subset = "cyrillic-ext" THEN <<"cyrillic", "ext">>
    ELSE <<subset>>

\* the last token of a token list followed by a literal "*" (the glob "[*]")
WithLiteralStar(toks) == SubSeq(toks, 1, Len(toks) - 1) \o <<toks[Len(toks)] \o "*">>

Pattern(toks, ext) == [toks |-> toks, ext |-> ext]

IsMaterialSymbols(pkg) == pkg \in {"material-symbols"}

\* the patterns one (subset, style) pair contributes, in order
PatternsFor(config, subset, style, weights) ==
    LET st == SubsetTokens(subset)
        axes == IF IsDef(config.axes) THEN config.axes[1] ELSE <<"wght">>
    IN  IF config.variable
        THEN IF IsMaterialSymbols(config.package)
             THEN <<Pattern(<<"*">> \o st \o <<"full", style>>, ".woff2"),
                    Pattern(<<"*">> \o WithLiteralStar(st) \o <<style>>, ".woff2")>>
             ELSE <<Pattern(<<"*">> \o st \o axes \o <<style>>, ".woff2")>>
                  \o [i \in 1..Len(axes) |->
                         Pattern(<<"*">> \o st \o <<axes[i], style>>, ".woff2")]
        ELSE [i \in 1..Len(weights) |->
                 Pattern(<<"*">> \o st \o <<ToString(weights[i]), style>>, ".woff2")]
             \o <<Pattern(<<"*">> \o st \o <<"*", style>>, ".woff2")>>

RECURSIVE FlatMap2(_, _, _, _, _, _)
\* the nested loops "for subset of subsets / for style of styles", from (i, j)
FlatMap2(config, subsets, styles, weights, i, j) ==
    IF i > Len(subsets) THEN <<>>
    ELSE IF j > Len(styles) THEN FlatMap2(config, subsets, styles, weights, i + 1, 1)
    ELSE PatternsFor(config, subsets[i], styles[j], weights)
         \o FlatMap2(config, subsets, styles, weights, i, j + 1)

buildFilePatterns(config, subsets, styles, weights) ==
    LET patterns == FlatMap2(config, subsets, styles, weights, 1, 1)
        woffPatterns == [i \in 1..Len(patterns) |-> [patterns[i] EXCEPT !.ext = ".woff"]]
    IN  patterns \o woffPatterns

\* glob: "*" stands for one or more "-"-separated fields
RECURSIVE GlobTokens(_, _)
GlobTokens(toks, parts) ==
    IF toks = <<>> THEN parts = <<>>
    ELSE IF parts = <<>> THEN FALSE
    ELSE IF Head(toks) = "*"
         THEN \E k \in 1..Len(parts) : GlobTokens(Tail(toks), SubSeq(parts, k + 1, Len(parts)))
         ELSE Head(toks) = Head(parts) /\ GlobTokens(Tail(toks), Tail(parts))

GlobMatches(pattern, file) == pattern.ext = file.ext /\ GlobTokens(pattern.toks, file.parts)

\* parseInt(weightPart, 10); <<>> is NaN
ParseInt(s) ==
    LET c == {n \in WeightUniverse : ToString(n) = s}
    IN  IF c = {} THEN <<>> ELSE <<CHOOSE n \in c : TRUE>>

\* <<>> is null
parseFileName(file, config) ==
    LET parts == file.parts
        n == Len(parts)
    IN  IF file.ext \notin {".woff", ".woff2"} \/ n < 3 THEN <<>>
        ELSE <<[fileName |-> file,
                subset |-> parts[n - 2],
                style |-> parts[n],
                weight |-> IF config.variable THEN <<>> ELSE ParseInt(parts[n - 1]),
                variable |-> config.variable]>>

FileSize == 1000

\* the files one pattern adds to the list
FoundBy(pattern, dir, prefix, config) ==
    LET found == SelectSeq(dir.files, LAMBDA e : GlobMatches(pattern, e.name))
        parsed == SelectSeq(found, LAMBDA e : parseFileName(e.name, config) # <<>>)
    IN  [i \in 1..Len(parsed) |->
            [fileName |-> parsed[i].name,
             subset |-> parseFileName(parsed[i].name, config)[1].subset,
             style |-> parseFileName(parsed[i].name, config)[1].style,
             weight |-> parseFileName(parsed[i].name, config)[1].weight,
             variable |-> config.variable,
             path |-> [prefix |-> prefix, store |-> dir.loc,
                       pkg |-> config.package, file |-> parsed[i].name],
             size |-> FileSize]]

RECURSIVE FoundByAll(_, _, _, _)
FoundByAll(patterns, dir, prefix, config) ==
    IF patterns = <<>> THEN <<>>
    ELSE FoundBy(Head(patterns), dir, prefix, config)
         \o FoundByAll(Tail(patterns), dir, prefix, config)

\* the list findFontFiles has before its sort: the matches of the patterns, in
\* pattern order
MatchList(d, prefix, config, metadata) ==
    LET subsets == IF IsDef(config.subsets) THEN config.subsets[1]
                   ELSE IF IsDef(metadata.subsets) THEN metadata.subsets[1] ELSE <<"latin">>
        styles == IF IsDef(config.styles) THEN config.styles[1]
                  ELSE IF IsDef(metadata.styles) THEN metadata.styles[1] ELSE <<"normal">>
        weights == IF IsDef(config.weights) THEN config.weights[1]
                   ELSE IF IsDef(metadata.weights) THEN metadata.weights[1] ELSE <<400>>
    IN  FoundByAll(buildFilePatterns(config, subsets, styles, weights), d[config.package],
                   prefix, config)

\* a comparator that puts the normal style first and then latin first
FileSortKey_StyleFirst(f) ==
    (IF f.subset = "latin" THEN 0 ELSE 1) + (IF f.style = "normal" THEN 0 ELSE 2)

\* the comparator of files.sort: latin first, then normal style first
FileSortKey(f) ==
    (IF f.subset = "latin" THEN 0 ELSE 2) + (IF f.style = "normal" THEN 0 ELSE 1)

\* [ok |-> FALSE] when there is no files directory (the throw)
findFontFiles(d, prefix, config, metadata) ==
    LET dir == d[config.package]
        subsets == IF IsDef(config.subsets) THEN config.subsets[1]
                   ELSE IF IsDef(metadata.subsets) THEN metadata.subsets[1] ELSE <<"latin">>
        styles == IF IsDef(config.styles) THEN config.styles[1]
                  ELSE IF IsDef(metadata.styles) THEN metadata.styles[1] ELSE <<"normal">>
        weights == IF IsDef(config.weights) THEN config.weights[1]
                   ELSE IF IsDef(metadata.weights) THEN metadata.weights[1] ELSE <<400>>
        patterns == buildFilePatterns(config, subsets, styles, weights)
        files == FoundByAll(patterns, dir, prefix, config)
    IN  IF ~dir.filesDir THEN [ok |-> FALSE, files |-> <<>>]
        ELSE [ok |-> TRUE,
              files |-> SortByKeys(files, [i \in 1..Len(files) |-> FileSortKey(files[i])])]

(***************************************************************************)
(* FontProcessor.copyFontFiles                                             *)
(***************************************************************************)
Families == {"Demo", "Material Symbols"}

\* family.toLowerCase().replace(/\s+/g, "-")
Slug(family) == IF family = "Demo" THEN "demo" ELSE "material-symbols"

\* the directory entry a resolved file was found as
EntryOf(dir, file) == CHOOSE e \in Range(dir.files) : e.name = file

\* a name made of the source file's name instead of the digest of its content
HashedName_FromFileName(family, file, hash) ==
    [slug |-> Slug(family), subset |-> file.subset, style |-> file.style,
     hash |-> file.fileName.parts[1], ext |-> file.fileName.ext]

\* <safeFamilyName>-<subset>-<style>-<hash><ext>
HashedName(family, file, hash) ==
    [slug |-> Slug(family), subset |-> file.subset, style |-> file.style,
     hash |-> hash, ext |-> file.fileName.ext]

Published(family, file, hash) ==
    [fileName |-> file.fileName, subset |-> file.subset, style |-> file.style,
     weight |-> file.weight, variable |-> file.variable, path |-> file.path,
     size |-> file.size,
     url |-> [base |-> "/fonts", name |-> HashedName(family, file, hash)],
     hash |-> hash]

RECURSIVE CopyLoop(_, _, _, _, _, _)
\* the loop of copyFontFiles from position i: the files copied so far, the names
\* written so far; it stops (threw) at the first failing read or copy
CopyLoop(files, family, dir, outExists, i, acc) ==
    IF i > Len(files) THEN [threw |-> FALSE, error |-> <<>>,
                            files |-> acc.files, written |-> acc.written]
    ELSE LET file == files[i]
             entry == EntryOf(dir, file.fileName)
             hash == entry.content
         IN  IF ~entry.readable
             THEN [threw |-> TRUE, error |-> <<[kind |-> "ReadFailed"]>>,
                   files |-> <<>>, written |-> acc.written]
             ELSE IF ~outExists
             THEN [threw |-> TRUE, error |-> <<[kind |-> "CopyFailed"]>>,
                   files |-> <<>>, written |-> acc.written]
             ELSE CopyLoop(files, family, dir, outExists, i + 1,
                           [files |-> Append(acc.files, Published(family, file, hash)),
                            written |-> acc.written
                                        \cup {HashedName(family, file, hash)}])

copyFontFiles(files, family, dir, outExists) ==
    CopyLoop(files, family, dir, outExists, 1, [files |-> <<>>, written |-> {}])

(***************************************************************************)
(* FontProcessor.processFont and the try/catch of processAll around it     *)
(***************************************************************************)
Thrown(kind, pkg, written) ==
    [threw |-> TRUE, error |-> [kind |-> kind, package |-> pkg],
     value |-> <<>>, written |-> written]

\* processFont that skips an unreadable file and reports it in errors next to
\* the files it did copy
processFont_KeepsPartial(d, prefix, fontConfig, outExists) ==
    LET pkg == fontConfig.package
        metadata == readFontMetadata(d, fontConfig)
        found == findFontFiles(d, prefix, fontConfig, metadata[1])
        readable == SelectSeq(found.files,
                              LAMBDA f : EntryOf(d[pkg], f.fileName).readable)
        copied == copyFontFiles(readable, metadata[1].family, d[pkg], outExists)
    IN  IF resolvePackagePath(d, pkg) = "none" THEN Thrown("PackageNotFound", pkg, {})
        ELSE IF metadata = <<>> THEN Thrown("NoMetadata", pkg, {})
        ELSE IF ~found.ok THEN Thrown("NoFilesDirectory", pkg, {})
        ELSE IF Len(found.files) = 0 THEN Thrown("NoFilesFound", pkg, {})
        ELSE IF copied.threw THEN Thrown(copied.error[1].kind, pkg, copied.written)
        ELSE [threw |-> FALSE, error |-> <<>>,
              value |-> <<[config |-> fontConfig, metadata |-> metadata[1],
                           files |-> copied.files,
                           errors |-> IF Len(readable) < Len(found.files)
                                      THEN <<[kind |-> "ReadFailed", package |-> pkg]>>
                                      ELSE <<>>]>>,
              written |-> copied.written]

\* [threw, error, value, written]: the ProcessedFont returned or the Error
\* thrown, and the names written to the output directory on the way
processFont(d, prefix, fontConfig, outExists) ==
    LET pkg == fontConfig.package
        packagePath == resolvePackagePath(d, pkg)
        metadata == readFontMetadata(d, fontConfig)
        found == findFontFiles(d, prefix, fontConfig, metadata[1])
        copied == copyFontFiles(found.files, metadata[1].family, d[pkg], outExists)
    IN  IF packagePath = "none" THEN Thrown("PackageNotFound", pkg, {})
        ELSE IF metadata = <<>> THEN Thrown("NoMetadata", pkg, {})
        ELSE IF ~found.ok THEN Thrown("NoFilesDirectory", pkg, {})
        ELSE IF Len(found.files) = 0 THEN Thrown("NoFilesFound", pkg, {})
        ELSE IF copied.threw THEN Thrown(copied.error[1].kind, pkg, copied.written)
        ELSE [threw |-> FALSE, error |-> <<>>,
              value |-> <<[config |-> fontConfig, metadata |-> metadata[1],
                           files |-> copied.files, errors |-> <<>>]>>,
              written |-> copied.written]

\* the entry the catch block of processAll pushes
FailedEntry(fontConfig, error) ==
    [config |-> fontConfig, metadata |-> EmptyMetadata, files |-> <<>>,
     errors |-> <<error>>]

\* what one iteration of the loop of processAll pushes
ProcessedEntry(fontConfig, r) ==
    IF r.threw THEN FailedEntry(fontConfig, r.error) ELSE r.value[1]

\* [...this.options.fonts].sort((a, b) => (b.priority || 0) - (a.priority || 0))
PriorityOf(font) == IF IsDef(font.priority) THEN font.priority[1] ELSE 0

\* the sort with (a.priority || 0) - (b.priority || 0)
SortByPriority_Ascending(fonts) ==
    SortByKeys(fonts, [i \in 1..Len(fonts) |-> PriorityOf(fonts[i])])

SortByPriority(fonts) ==
    SortByKeys(fonts, [i \in 1..Len(fonts) |-> 0 - PriorityOf(fonts[i])])

HasErrors(font) == Len(font.errors) > 0

(***************************************************************************)
(* FontProcessor.generateCSS                                               *)
(***************************************************************************)
IsIconPackage(pkg) == pkg \in {"material-symbols"}

BuiltinRanges ==
    [latin |-> "U+0000-00FF, ...", cyrillic |-> "U+0301, U+0400-045F, ..."]

getUnicodeRange(metadata, subset) ==
    IF subset \in DOMAIN metadata.unicodeRange THEN <<metadata.unicodeRange[subset]>>
    ELSE IF subset \in DOMAIN BuiltinRanges THEN <<BuiltinRanges[subset]>>
    ELSE <<>>

generateSingleFontFace(font, file, options) ==
    LET config == font.config
        metadata == font.metadata
        display == IF IsDef(config.display) THEN config.display[1] ELSE options.display
        format == IF file.fileName.ext = ".woff2" THEN "woff2" ELSE "woff"
    IN  [kind |-> "face",
         family |-> metadata.family,
         style |-> file.style,
         display |-> IF IsIconPackage(config.package) THEN "block" ELSE display,
         weight |-> IF config.variable /\ "wght" \in DOMAIN metadata.axes
                    THEN <<metadata.axes.wght.min, metadata.axes.wght.max>>
                    ELSE IF IsDef(file.weight) /\ file.weight # <<0>> THEN file.weight
                    ELSE <<400>>,
         url |-> file.url,
         format |-> [container |-> format, variations |-> config.variable],
         unicodeRange |-> getUnicodeRange(metadata, file.subset)]

\* String.prototype.includes
Includes(str, part) ==
    \E i \in 1..(Len(str) - Len(part) + 1) : SubSeq(str, i, i + Len(part) - 1) = part

UpperCase == "ABCDEFGHIJKLMNOPQRSTUVWXYZ"

LowerCase == "abcdefghijklmnopqrstuvwxyz"

LowerChar(c) ==
    IF \E i \in 1..Len(UpperCase) : SubSeq(UpperCase, i, i) = c
    THEN LET i == CHOOSE i \in 1..Len(UpperCase) : SubSeq(UpperCase, i, i) = c
         IN  SubSeq(LowerCase, i, i)
    ELSE c

RECURSIVE ToLowerCase(_)
\* String.prototype.toLowerCase
ToLowerCase(str) ==
    IF str = "" THEN ""
    ELSE LowerChar(SubSeq(str, 1, 1)) \o ToLowerCase(SubSeq(str, 2, Len(str)))

\* str.replace(part, ""): the first occurrence of part is removed
RemoveFirst(str, part) ==
    LET at == {i \in 1..(Len(str) - Len(part) + 1) : SubSeq(str, i, i + Len(part) - 1) = part}
    IN  IF at = {} THEN str
        ELSE LET i == CHOOSE i \in at : \A j \in at : i <= j
             IN  SubSeq(str, 1, i - 1) \o SubSeq(str, i + Len(part), Len(str))

Metrics(fallback, sizeAdjust, ascentOverride, descentOverride, lineGapOverride) ==
    [fallback |-> fallback, sizeAdjust |-> sizeAdjust, ascentOverride |-> ascentOverride,
     descentOverride |-> descentOverride, lineGapOverride |-> lineGapOverride]

\* the table fallbackMetrics, on some of its families
FallbackTable ==
    [f \in {"Inter", "Inter Variable", "Roboto", "Lora", "Fira Code"} |->
        IF f \in {"Inter", "Inter Variable"}
        THEN Metrics("Arial, Helvetica Neue, Helvetica, sans-serif", "107.5%", "90%", "22.5%", "0%")
        ELSE IF f = "Roboto"
        THEN Metrics("Arial, Helvetica Neue, Helvetica, sans-serif", "100.3%", "92.7%", "24.4%", "0%")
        ELSE IF f = "Lora"
        THEN Metrics("Georgia, Times New Roman, Times, serif", "97.5%", "93%", "25%", "0%")
        ELSE Metrics("Courier New, Courier, monospace", "97.5%", "95%", "24%", "0%")]

\* the properties the table object inherits from Object.prototype
InheritedKeys == {"constructor", "toString", "valueOf", "hasOwnProperty"}

\* the fields of a value that is not a table entry read undefined
Undefined == "undefined"

NotMetrics == Metrics(Undefined, Undefined, Undefined, Undefined, Undefined)

\* fallbackMetrics[family]: the entry, an inherited property, or <<>> (undefined)
TableEntry(family) ==
    IF family \in DOMAIN FallbackTable THEN <<FallbackTable[family]>>
    ELSE IF family \in InheritedKeys THEN <<NotMetrics>>
    ELSE <<>>

\* family.toLowerCase().includes("serif")
IncludesSerif(family) == Includes(ToLowerCase(family), "serif")

\* a JavaScript string that is neither undefined nor empty
Truthy(str) == IsDef(str) /\ str[1] # ""

MonospaceDefaults == Metrics("Courier New, Courier, monospace", "98%", "94%", "25%", "0%")

SerifDefaults == Metrics("Georgia, Times New Roman, Times, serif", "100%", "92%", "25%", "0%")

IconDefaults == Metrics("sans-serif", "100%", "normal", "normal", "normal")

SansSerifDefaults == Metrics("Arial, Helvetica, sans-serif", "100%", "93%", "24%", "0%")

\* { ...entry, fallback: customFallback } or customFallback || entry.fallback
WithCustomFallback(entry, customFallback) ==
    IF Truthy(customFallback) THEN [entry EXCEPT !.fallback = customFallback[1]] ELSE entry

\* getFallbackMetricsForFont of lib/fallback-metrics
getFallbackMetricsForFont(fontFamily, customFallback) ==
    LET baseFamily == RemoveFirst(fontFamily, " Variable")
        lowerFamily == ToLowerCase(fontFamily)
    IN  IF IsDef(TableEntry(fontFamily))
        THEN WithCustomFallback(TableEntry(fontFamily)[1], customFallback)
        ELSE IF IsDef(TableEntry(baseFamily))
        THEN WithCustomFallback(TableEntry(baseFamily)[1], customFallback)
        ELSE IF Includes(lowerFamily, "mono") \/ Includes(lowerFamily, "code")
        THEN WithCustomFallback(MonospaceDefaults, customFallback)
        ELSE IF Includes(lowerFamily, "serif") /\ ~Includes(lowerFamily, "sans")
        THEN WithCustomFallback(SerifDefaults, customFallback)
        ELSE IF Includes(lowerFamily, "icon") \/ Includes(lowerFamily, "symbols")
        THEN WithCustomFallback(IconDefaults, customFallback)
        ELSE WithCustomFallback(SansSerifDefaults, customFallback)

\* FontProcessor.getFallbackMetrics
getFallbackMetrics(family, customFallback) ==
    IF IsDef(TableEntry(family)) THEN TableEntry(family)[1]
    ELSE [fallback |-> IF Truthy(customFallback) THEN customFallback[1]
                       ELSE IF IncludesSerif(family) THEN "Georgia, serif"
                       ELSE "Arial, sans-serif",
          sizeAdjust |-> "100%", ascentOverride |-> "normal",
          descentOverride |-> "normal", lineGapOverride |-> "0%"]

generateFallbackFont(font) ==
    [kind |-> "fallback",
     family |-> font.metadata.family,
     metrics |-> getFallbackMetrics(font.metadata.family, font.config.fallback)]

\* the blocks one ProcessedFont contributes to the font-face section
FaceBlocksOf(font, options) ==
    IF HasErrors(font)
    THEN <<[kind |-> "error", family |-> font.config.family, errors |-> font.errors]>>
    ELSE [i \in 1..Len(font.files) |-> generateSingleFontFace(font, font.files[i], options)]
         \o (IF options.fallbacks /\ font.config.variable
             THEN <<generateFallbackFont(font)>> ELSE <<>>)

RECURSIVE generateFontFaces(_, _)
generateFontFaces(results, options) ==
    IF results = <<>> THEN <<>>
    ELSE FaceBlocksOf(Head(results), options) \o generateFontFaces(Tail(results), options)

\* the custom properties of one font: its family property and, for a variable
\* font, the axes it exposes min/max/default for
PropertiesOf(font, options) ==
    [var |-> Slug(font.metadata.family),
     family |-> font.metadata.family,
     fallbackFace |-> font.config.variable /\ options.fallbacks,
     generic |-> IF Truthy(font.config.fallback) THEN font.config.fallback[1]
                 ELSE IF IncludesSerif(font.metadata.family) THEN ", serif"
                 ELSE ", sans-serif",
     axes |-> IF font.config.variable THEN font.metadata.axes ELSE [a \in {} |-> 0]]

generateCustomProperties(results, options) ==
    LET ok == SelectSeq(results, LAMBDA font : ~HasErrors(font))
    IN  [i \in 1..Len(ok) |-> PropertiesOf(ok[i], options)]

\* axes.<tag>?.default || dflt
AxisDefault(axes, tag, dflt) ==
    IF tag \in DOMAIN axes /\ axes[tag].default # 0 THEN axes[tag].default ELSE dflt

Settings(fill, wght, grad, opsz) == [FILL |-> fill, wght |-> wght, GRAD |-> grad, opsz |-> opsz]

\* [threw, classes]: font.metadata.family.toLowerCase() throws a TypeError
\* when the entry has no metadata
generateMaterialSymbolsUtilities(font) ==
    LET axes == font.metadata.axes
        fill == AxisDefault(axes, "FILL", 0)
        wght == AxisDefault(axes, "wght", 400)
        grad == AxisDefault(axes, "GRAD", 0)
        opsz == AxisDefault(axes, "opsz", 24)
        weights == <<[name |-> "thin", value |-> 100], [name |-> "light", value |-> 300],
                     [name |-> "regular", value |-> 400], [name |-> "medium", value |-> 500],
                     [name |-> "bold", value |-> 700]>>
        sizes == <<20, 24, 40, 48>>
    IN  IF "family" \notin DOMAIN font.metadata THEN [threw |-> TRUE, classes |-> <<>>]
        ELSE [threw |-> FALSE,
              classes |->
                <<[class |-> "base", family |-> Slug(font.metadata.family),
                   axes |-> DOMAIN axes \cap {"FILL", "wght", "GRAD", "opsz"}]>>
                \o (IF "FILL" \in DOMAIN axes
                    THEN <<[class |-> "filled", settings |-> Settings(1, wght, grad, opsz)]>>
                    ELSE <<>>)
                \o [i \in 1..Len(weights) |->
                       [class |-> weights[i].name,
                        settings |-> Settings(fill, weights[i].value, grad, opsz)]]
                \o [i \in 1..Len(sizes) |->
                       [class |-> "size", size |-> sizes[i],
                        settings |-> Settings(fill, wght, grad, sizes[i])]]]

generateUtilities(results) ==
    LET ms == SelectSeq(results, LAMBDA r : IsMaterialSymbols(r.config.package))
    IN  IF ms = <<>> THEN [threw |-> FALSE, classes |-> <<>>]
        ELSE generateMaterialSymbolsUtilities(ms[1])

\* [threw, faces, props, utils]: the sections of the stylesheet
generateCSS(results, options) ==
    LET utils == IF options.utilities THEN generateUtilities(results)
                 ELSE [threw |-> FALSE, classes |-> <<>>]
    IN  IF utils.threw
        THEN [threw |-> TRUE, faces |-> <<>>, props |-> <<>>, utils |-> <<>>]
        ELSE [threw |-> FALSE,
              faces |-> generateFontFaces(results, options),
              props |-> IF options.customProperties
                        THEN generateCustomProperties(results, options) ELSE <<>>,
              utils |-> utils.classes]

(***************************************************************************)
(* generateFontTypes (src/index.ts)                                        *)
(***************************************************************************)
\* results.map((r) => r.metadata.family.toLowerCase()...) throws a TypeError
\* on an entry whose metadata is {}
generateFontTypes(results) ==
    IF \E i \in 1..Len(results) : "family" \notin DOMAIN results[i].metadata
    THEN [threw |-> TRUE, names |-> <<>>]
    ELSE [threw |-> FALSE,
          names |-> [i \in 1..Len(results) |-> Slug(results[i].metadata.family)]]

(***************************************************************************)
(* CacheManager                                                            *)
(***************************************************************************)
moduleVersion == "1.0.0"

Tolerance == 1000

NoCacheFile == [kind |-> "none"]

\* a cache.json that JSON.parse rejects, and one that readFileSync cannot read
CorruptCache == [kind |-> "corrupt"]

UnreadableCache == [kind |-> "unreadable"]

\* no backup file in the cache directory
NoBackups == [t \in {} |-> NoCacheFile]

Snapshot(timestamp, configHash, cachedFonts, version) ==
    [kind |-> "snapshot", timestamp |-> timestamp, configHash |-> configHash,
     fonts |-> cachedFonts, version |-> version]

\* absolutePath.startsWith(projectRoot) ? absolutePath.slice(projectRoot.length + 1)
\*                                      : absolutePath
makeRelativePath(path, projectRoot) ==
    IF IsPrefix(projectRoot, path.prefix)
    THEN [path EXCEPT !.prefix = SubSeq(path.prefix, Len(projectRoot) + 2, Len(path.prefix))]
    ELSE path

sanitizeResults(results, projectRoot) ==
    [i \in 1..Len(results) |->
        [results[i] EXCEPT !.files =
            [j \in 1..Len(results[i].files) |->
                [results[i].files[j] EXCEPT !.path =
                    makeRelativePath(results[i].files[j].path, projectRoot)]]]]

\* the characters a path resolves to in front of "node_modules/": a relative
\* path is resolved against the working directory
ResolvedPrefix(path, workDir) ==
    IF path.prefix # <<>> /\ path.prefix[1] = "/" THEN path.prefix
    ELSE (IF workDir = <<"/">> THEN workDir ELSE workDir \o <<"/">>) \o path.prefix

\* existsSync(file.path) for a font file path
existsSync(path, d, workDir, root) ==
    /\ ResolvedPrefix(path, workDir) = root \o <<"/">>
    /\ d[path.pkg].loc = path.store
    /\ d[path.pkg].filesDir
    /\ \E e \in Range(d[path.pkg].files) : e.name = path.file

\* the mtime of the file getMetadataPath returns, <<>> when it returns null:
\* <cwd>/node_modules/<pkg>/metadata.json, else <cwd>/node_modules/<pkg>/package.json
getMetadataPath(pkg, d, workDir, root) ==
    IF workDir = root /\ d[pkg].loc = "plain"
    THEN IF d[pkg].meta = "metadata.json" THEN <<d[pkg].metaMtime>>
         ELSE <<d[pkg].pkgJsonMtime>>
    ELSE <<>>

\* what one cached font contributes to checkFilesModified
FontModified(font, d, workDir, root, cacheTime) ==
    /\ ~HasErrors(font)
    /\ \/ LET metadataTime == getMetadataPath(font.config.package, d, workDir, root)
          IN  metadataTime # <<>> /\ metadataTime[1] > cacheTime + Tolerance
       \/ \E j \in 1..Len(font.files) : ~existsSync(font.files[j].path, d, workDir, root)

checkFilesModified(cachedFonts, d, workDir, root, cacheTime) ==
    \E i \in 1..Len(cachedFonts) : FontModified(cachedFonts[i], d, workDir, root, cacheTime)

\* the age checks with a snapshot of exactly the time to live rejected
PassesAgeChecks_Strict(cache, ttl, t) ==
    /\ cache.kind = "snapshot"
    /\ cache.version = moduleVersion
    /\ ~(t - cache.timestamp >= ttl)

\* the checks of isCacheValid in front of generateConfigHash
PassesAgeChecks(cache, ttl, t) ==
    /\ cache.kind = "snapshot"
    /\ cache.version = moduleVersion
    /\ ~(t - cache.timestamp > ttl)

isCacheValid(cache, cacheTime, ttl, t, fonts, d, workDir, root) ==
    /\ PassesAgeChecks(cache, ttl, t)
    /\ generateConfigHash(fonts) = cache.configHash
    /\ ~checkFilesModified(cache.fonts, d, workDir, root, cacheTime)

\* the CacheEntry updateCache writes
updateCache(fonts, results, t, workDir) ==
    Snapshot(t, generateConfigHash(fonts), sanitizeResults(results, workDir), moduleVersion)

(***************************************************************************)
(* State                                                                   *)
(***************************************************************************)
VARIABLES
    configFile,     \* the fonts of nuxt.config, as the user wrote them
    fonts,          \* options.fonts of the running process
    options,        \* the other module options
    disk,           \* node_modules: package |-> PackageDir
    cwd,            \* process.cwd(), a sequence of characters
    rootDir,        \* nuxt.options.rootDir, a sequence of characters
    outDirExists,   \* the output directory exists
    outDir,         \* the names of the files in the output directory
    cssFile,        \* the stylesheet on disk, <<>> when absent
    docsFile,       \* the documentation on disk, <<>> when absent
    typesFile,      \* the generated type template, <<>> when absent
    cacheFile,      \* cache.json
    cacheMtime,     \* the mtime of cache.json
    backups,        \* the cache.backup.<time>.json files: time |-> content
    metrics,        \* the last call of getFallbackMetricsForFont: its arguments and
                    \* the value it returned, <<>> before any
    overlap,        \* the locals of a processFonts call that is suspended at an await
                    \* while a later call runs, <<>> when there is none
    now,            \* Date.now()
    pc,             \* where processFonts stands
    force,          \* the argument of the processFonts call
    processedFonts, \* FontProcessor.processedFonts
    sortedFonts,    \* the local sortedFonts of processAll
    idx,            \* the position of the loop of processAll in sortedFonts
    cacheValid,     \* the result of the last isCacheValid, <<>> before any
    outcome,        \* how the last processFonts call ended
    throwAt,        \* the step the last processFonts call threw at
    runs,           \* the number of processFonts calls so far
    runWrites,      \* per entry of processedFonts: the names its processing wrote
    sinceCache,     \* what changed in the configuration and in node_modules since
                    \* cache.json was last written
    changes         \* the number of changes to configuration and node_modules so far

vars == <<configFile, fonts, options, disk, cwd, rootDir, outDirExists, outDir, cssFile,
          docsFile, typesFile, cacheFile, cacheMtime, backups, metrics, overlap, now, pc,
          force, processedFonts, sortedFonts, idx, cacheValid, outcome, throwAt, runs,
          runWrites, sinceCache, changes>>

envVars == <<configFile, options, disk, cwd, rootDir, outDirExists, backups, metrics,
             overlap, now, changes>>

outVars == <<outDir, cssFile, docsFile, typesFile, cacheFile, cacheMtime>>

(***************************************************************************)
(* The requests, package directories and directories the model draws from  *)
(***************************************************************************)
Request(pkg, family, variable) ==
    [package |-> pkg, family |-> family, variable |-> variable,
     weights |-> <<>>, styles |-> <<>>, subsets |-> <<>>, axes |-> <<>>,
     preload |-> <<>>, display |-> <<>>, fallback |-> <<>>, priority |-> <<>>,
     unicodeRanges |-> <<>>]

ReqDemo ==
    [Request("pkg-a", "Demo", TRUE) EXCEPT
        !.weights = <<<<700, 400>>>>, !.styles = <<<<"normal", "italic">>>>,
        !.subsets = <<<<"latin">>>>, !.axes = <<<<"wght">>>>, !.preload = <<TRUE>>]

ReqIcon == Request("material-symbols", "Material Symbols", TRUE)

ReqStatic ==
    [Request("pkg-a", "Demo", FALSE) EXCEPT !.weights = <<<<400>>>>, !.priority = <<10>>]

Configs == {<<ReqDemo>>, <<ReqIcon>>, <<ReqDemo, ReqIcon>>, <<ReqIcon, ReqStatic>>}

Installed(pkg, meta) == PackageDir("plain", meta, TRUE, InstalledFiles(pkg))

\* the package directories a package can be found as
Worlds(pkg) ==
    {Absent,
     PackageDir("plain", "none", TRUE, InstalledFiles(pkg)),
     PackageDir("plain", "metadata.json", FALSE, <<>>),
     PackageDir("plain", "metadata.json", TRUE, <<>>),
     Installed(pkg, "metadata.json"),
     Installed(pkg, "font-metadata.json"),
     PackageDir("pnpm", "metadata.json", TRUE, InstalledFiles(pkg)),
     PackageDir("plain", "metadata.json", TRUE, WithUnreadable(InstalledFiles(pkg), 2))}

\* node_modules: every package as one of its package directories
AllDisks == {d \in [Packages -> UNION {Worlds(p) : p \in Packages}] :
                \A p \in Packages : d[p] \in Worlds(p)}

DefaultOptions ==
    [caching |-> TRUE, generateDocs |-> TRUE, fallbacks |-> TRUE,
     customProperties |-> TRUE, utilities |-> TRUE, display |-> "swap"]

\* <<process.cwd(), rootDir>>
SameDir == <<<<"/", "a">>, <<"/", "a">>>>

Dirs ==
    {SameDir,
     <<<<"/">>, <<"/", "a">>>>,
     <<<<"/", "a">>, <<"/", "a", "b">>>>,
     <<<<"/", "a">>, <<"/", "a", "/", "b">>>>,
     <<<<"/", "c">>, <<"/", "a">>>>}

(***************************************************************************)
(* Init: the module has been set up (FontProcessor and CacheManager        *)
(* constructed, the output directory created), processFonts not yet called *)
(***************************************************************************)
InitWith(configs, worlds, opts, dirs, caches) ==
    /\ configFile \in configs
    /\ fonts = configFile
    /\ options \in opts
    /\ disk \in worlds
    /\ \E dd \in dirs : cwd = dd[1] /\ rootDir = dd[2]
    /\ outDirExists = TRUE
    /\ outDir = {}
    /\ cssFile = <<>>
    /\ docsFile = <<>>
    /\ typesFile = <<>>
    /\ cacheFile \in caches
    /\ cacheMtime = 0
    /\ backups = NoBackups
    /\ metrics = <<>>
    /\ overlap = <<>>
    /\ now = 0
    /\ pc = "start"
    /\ force = FALSE
    /\ processedFonts = <<>>
    /\ sortedFonts = <<>>
    /\ idx = 1
    /\ cacheValid = <<>>
    /\ outcome = "none"
    /\ throwAt = "none"
    /\ runs = 0
    /\ runWrites = <<>>
    /\ sinceCache = <<>>
    /\ changes = 0

(***************************************************************************)
(* processFonts (src/index.ts) and processAll, step by step                *)
(***************************************************************************)
Quiescent == pc \in {"idle", "failed"}

\* the first statements of processAll
BeginProcessAll(fs) ==
    /\ processedFonts' = <<>>
    /\ runWrites' = <<>>
    /\ sortedFonts' = SortByPriority(fs)
    /\ idx' = 1
    /\ pc' = "processing"

\* the processFonts() call of setup, up to the cache check: isCacheValid when
\* caching is enabled, else straight into processAll
SetupRun ==
    /\ pc = "start"
    /\ runs < MaxRuns
    /\ runs' = runs + 1
    /\ throwAt' = "none"
    /\ outcome' = "running"
    /\ IF options.caching
       THEN /\ cacheValid' = <<isCacheValid(cacheFile, cacheMtime, cacheTTL, now, fonts,
                                            disk, cwd, rootDir)>>
            /\ fonts' = IF PassesAgeChecks(cacheFile, cacheTTL, now)
                        THEN FontsAfterHash(fonts) ELSE fonts
            /\ pc' = "checked"
            /\ UNCHANGED <<processedFonts, runWrites, sortedFonts, idx>>
       ELSE /\ cacheValid' = <<>>
            /\ BeginProcessAll(fonts)
            /\ UNCHANGED fonts
    /\ UNCHANGED <<envVars, outVars, force, sinceCache>>

\* if (cacheValid) return; else processAll starts
CacheDecision ==
    /\ pc = "checked"
    /\ IF cacheValid = <<TRUE>>
       THEN /\ pc' = "idle"
            /\ outcome' = "hit"
            /\ UNCHANGED <<processedFonts, runWrites, sortedFonts, idx>>
       ELSE /\ BeginProcessAll(fonts)
            /\ UNCHANGED outcome
    /\ UNCHANGED <<envVars, outVars, fonts, force, cacheValid, throwAt, runs, sinceCache>>

\* a builder:watch event on a font-related path: processFonts(true)
WatchRun ==
    /\ \/ pc = "idle"
       \/ pc = "failed" /\ force
    /\ runs < MaxRuns
    /\ runs' = runs + 1
    /\ force' = TRUE
    /\ throwAt' = "none"
    /\ outcome' = "running"
    /\ BeginProcessAll(fonts)
    /\ UNCHANGED <<envVars, outVars, fonts, cacheValid, sinceCache>>

Throw(step) ==
    /\ pc' = "failed"
    /\ outcome' = "threw"
    /\ throwAt' = step

\* the loop of processAll without its try/catch: the first font that fails
\* rejects processAll
ProcessNextFont_NoCatch ==
    /\ pc = "processing"
    /\ idx <= Len(sortedFonts)
    /\ LET r == processFont(disk, rootDir \o <<"/">>, sortedFonts[idx], outDirExists)
       IN  /\ outDir' = outDir \cup r.written
           /\ IF r.threw
              THEN /\ Throw("processAll")
                   /\ UNCHANGED <<processedFonts, runWrites, idx>>
              ELSE /\ processedFonts' = Append(processedFonts, r.value[1])
                   /\ runWrites' = Append(runWrites, r.written)
                   /\ idx' = idx + 1
                   /\ UNCHANGED <<pc, outcome, throwAt>>
    /\ UNCHANGED <<envVars, fonts, cssFile, docsFile, typesFile, cacheFile, cacheMtime,
                   force, sortedFonts, cacheValid, runs, sinceCache>>

\* one iteration of the loop of processAll
ProcessNextFont ==
    /\ pc = "processing"
    /\ idx <= Len(sortedFonts)
    /\ LET r == processFont(disk, rootDir \o <<"/">>, sortedFonts[idx], outDirExists)
       IN  /\ processedFonts' = Append(processedFonts, ProcessedEntry(sortedFonts[idx], r))
           /\ runWrites' = Append(runWrites, r.written)
           /\ outDir' = outDir \cup r.written
    /\ idx' = idx + 1
    /\ UNCHANGED <<envVars, fonts, cssFile, docsFile, typesFile, cacheFile, cacheMtime, pc,
                   force, sortedFonts, cacheValid, outcome, throwAt, runs, sinceCache>>

\* processFonts going on to the documentation after a failed write of the
\* stylesheet
WriteStylesheet_IgnoresFailure ==
    /\ pc = "processing"
    /\ idx > Len(sortedFonts)
    /\ LET css == generateCSS(processedFonts, options)
       IN  IF css.threw
           THEN Throw("generateCSS") /\ UNCHANGED cssFile
           ELSE /\ \E ok \in BOOLEAN : cssFile' = IF ok THEN <<css>> ELSE cssFile
                /\ pc' = "docs"
                /\ UNCHANGED <<outcome, throwAt>>
    /\ UNCHANGED <<envVars, fonts, outDir, docsFile, typesFile, cacheFile, cacheMtime, force,
                   processedFonts, sortedFonts, idx, cacheValid, runs, runWrites, sinceCache>>

\* generateCSS and the write of the stylesheet; the write may fail
WriteStylesheet ==
    /\ pc = "processing"
    /\ idx > Len(sortedFonts)
    /\ LET css == generateCSS(processedFonts, options)
       IN  IF css.threw
           THEN Throw("generateCSS") /\ UNCHANGED cssFile
           ELSE \E ok \in BOOLEAN :
                   IF ok
                   THEN /\ cssFile' = <<css>>
                        /\ pc' = "docs"
                        /\ UNCHANGED <<outcome, throwAt>>
                   ELSE Throw("writeStylesheet") /\ UNCHANGED cssFile
    /\ UNCHANGED <<envVars, fonts, outDir, docsFile, typesFile, cacheFile, cacheMtime, force,
                   processedFonts, sortedFonts, idx, cacheValid, runs, runWrites, sinceCache>>

\* generateDocumentation lists a failed font under config.family
DocEntry(font) ==
    IF HasErrors(font) THEN [family |-> font.config.family, ok |-> FALSE]
    ELSE [family |-> font.metadata.family, ok |-> TRUE]

generateDocumentation(results) == [i \in 1..Len(results) |-> DocEntry(results[i])]

\* the documentation, when enabled; the write may fail
WriteDocs ==
    /\ pc = "docs"
    /\ IF options.generateDocs
       THEN \E ok \in BOOLEAN :
               IF ok
               THEN /\ docsFile' = <<generateDocumentation(processedFonts)>>
                    /\ pc' = "cache"
                    /\ UNCHANGED <<outcome, throwAt>>
               ELSE Throw("writeDocs") /\ UNCHANGED docsFile
       ELSE pc' = "cache" /\ UNCHANGED <<docsFile, outcome, throwAt>>
    /\ UNCHANGED <<envVars, fonts, outDir, cssFile, typesFile, cacheFile, cacheMtime, force,
                   processedFonts, sortedFonts, idx, cacheValid, runs, runWrites, sinceCache>>

\* generateConfigHash sorts the arrays of the FontConfig objects in place, and
\* the entries of processedFonts refer to those objects
ConfigsSortedInPlace(results) ==
    [i \in 1..Len(results) |-> [results[i] EXCEPT !.config = SortedInPlace(@)]]

\* updateCache without its try/catch: a failing write of cache.json rejects
\* processFonts
UpdateCache_Rethrows ==
    /\ pc = "cache"
    /\ IF options.caching
       THEN /\ fonts' = FontsAfterHash(fonts)
            /\ sortedFonts' = FontsAfterHash(sortedFonts)
            /\ processedFonts' = ConfigsSortedInPlace(processedFonts)
            /\ \E ok \in BOOLEAN :
                  IF ok
                  THEN /\ cacheFile' = updateCache(fonts, processedFonts', now, cwd)
                       /\ cacheMtime' = now
                       /\ sinceCache' = <<>>
                       /\ pc' = "types"
                       /\ UNCHANGED <<outcome, throwAt>>
                  ELSE /\ Throw("updateCache")
                       /\ UNCHANGED <<cacheFile, cacheMtime, sinceCache>>
       ELSE /\ pc' = "types"
            /\ UNCHANGED <<fonts, sortedFonts, processedFonts, cacheFile, cacheMtime,
                           sinceCache, outcome, throwAt>>
    /\ UNCHANGED <<envVars, outDir, cssFile, docsFile, typesFile, force, idx,
                   cacheValid, runs, runWrites>>

\* cacheManager.updateCache, when caching is enabled; a failing write is swallowed
UpdateCache ==
    /\ pc = "cache"
    /\ IF options.caching
       THEN /\ fonts' = FontsAfterHash(fonts)
            /\ sortedFonts' = FontsAfterHash(sortedFonts)
            /\ processedFonts' = ConfigsSortedInPlace(processedFonts)
            /\ \E ok \in BOOLEAN :
                  IF ok
                  THEN /\ cacheFile' = updateCache(fonts, processedFonts', now, cwd)
                       /\ cacheMtime' = now
                       /\ sinceCache' = <<>>
                  ELSE UNCHANGED <<cacheFile, cacheMtime, sinceCache>>
       ELSE UNCHANGED <<fonts, sortedFonts, processedFonts, cacheFile, cacheMtime, sinceCache>>
    /\ pc' = "types"
    /\ UNCHANGED <<envVars, outDir, cssFile, docsFile, typesFile, force, idx,
                   cacheValid, outcome, throwAt, runs, runWrites>>

\* generateFontTypes, then the normal end of processFonts
GenerateTypes ==
    /\ pc = "types"
    /\ LET t == generateFontTypes(processedFonts)
       IN  IF t.threw
           THEN Throw("generateFontTypes") /\ UNCHANGED typesFile
           ELSE /\ typesFile' = <<t.names>>
                /\ pc' = "idle"
                /\ outcome' = "done"
                /\ UNCHANGED throwAt
    /\ UNCHANGED <<envVars, fonts, outDir, cssFile, docsFile, cacheFile, cacheMtime, force,
                   processedFonts, sortedFonts, idx, cacheValid, runs, runWrites, sinceCache>>

\* the process ends and nuxt starts again: a new FontProcessor, the configuration
\* read again, the output directory created by setup if it is not there
Restart ==
    /\ Quiescent
    /\ runs < MaxRuns
    /\ pc' = "start"
    /\ force' = FALSE
    /\ fonts' = configFile
    /\ outDirExists' = TRUE
    /\ processedFonts' = <<>>
    /\ runWrites' = <<>>
    /\ sortedFonts' = <<>>
    /\ idx' = 1
    /\ UNCHANGED <<configFile, options, disk, cwd, rootDir, backups, metrics, overlap, now,
                   changes, outVars, cacheValid, outcome, throwAt, runs, sinceCache>>

(***************************************************************************)
(* Spec: the pipeline on every configuration and package directory         *)
(***************************************************************************)
Init ==
    InitWith(Configs, AllDisks,
             {[DefaultOptions EXCEPT !.caching = c, !.utilities = u] :
                 c \in BOOLEAN, u \in BOOLEAN},
             {SameDir}, {NoCacheFile})

Next ==
    \/ SetupRun
    \/ CacheDecision
    \/ WatchRun
    \/ ProcessNextFont
    \/ WriteStylesheet
    \/ WriteDocs
    \/ UpdateCache
    \/ GenerateTypes
    \/ Restart

Spec == Init /\ [][Next]_vars

(***************************************************************************)
(* The environment between two runs                                        *)
(***************************************************************************)
\* the moments the model looks at: around the tolerance of checkFilesModified
\* and around the end of the time to live
TimePoints == {Tolerance, Tolerance + 1, cacheTTL, cacheTTL + 1}

\* time passes
Tick ==
    /\ Quiescent
    /\ runs < MaxRuns
    /\ \E t \in TimePoints : t > now /\ now' = t
    /\ UNCHANGED <<configFile, fonts, options, disk, cwd, rootDir, outDirExists, backups,
                   metrics, overlap, outVars, pc, force, processedFonts, sortedFonts, idx,
                   cacheValid, outcome, throwAt, runs, runWrites, sinceCache, changes>>

\* the common part of a change to the environment of the module
Changed(what) ==
    /\ Quiescent
    /\ runs < MaxRuns
    /\ changes < MaxChanges
    /\ changes' = changes + 1
    /\ sinceCache' = Append(sinceCache, what)
    /\ UNCHANGED <<options, cwd, rootDir, outDirExists, backups, metrics, overlap, now,
                   outVars, cacheValid, outcome, throwAt, runs>>

\* the metadata file of a package is rewritten
TouchMetadata ==
    /\ Changed("metadata")
    /\ \E p \in Packages :
          /\ disk[p].loc # "none"
          /\ disk[p].meta # "none"
          /\ disk' = [disk EXCEPT ![p].metaMtime = now]
    /\ UNCHANGED <<configFile, fonts, pc, force, processedFonts, sortedFonts, idx, runWrites>>

\* a font file of a package is deleted
RemoveSourceFile ==
    /\ Changed("file")
    /\ \E p \in Packages :
          /\ disk[p].files # <<>>
          /\ disk' = [disk EXCEPT ![p].files = Tail(@)]
    /\ UNCHANGED <<configFile, fonts, pc, force, processedFonts, sortedFonts, idx, runWrites>>

\* the fields of a FontConfig a user edits, each with the value the edit gives it
Edits ==
    [package |-> "material-symbols",
     family |-> "Demo Variable",
     variable |-> FALSE,
     weights |-> <<<<400>>>>,
     styles |-> <<<<"normal">>>>,
     subsets |-> <<<<"latin", "cyrillic">>>>,
     axes |-> <<<<"wght", "opsz">>>>,
     display |-> <<"block">>,
     fallback |-> <<"Georgia, serif">>,
     priority |-> <<5>>,
     unicodeRanges |-> <<[latin |-> "U+0000-00FF"]>>]

\* the user edits one of the given fields of the first request of nuxt.config,
\* and nuxt starts again on the edited file
EditConfigIn(fields) ==
    \E field \in fields :
        /\ Changed(field)
        /\ configFile[1][field] # Edits[field]
        /\ configFile' = [configFile EXCEPT ![1][field] = Edits[field]]
        /\ fonts' = configFile'
        /\ pc' = "start"
        /\ force' = FALSE
        /\ processedFonts' = <<>>
        /\ runWrites' = <<>>
        /\ sortedFonts' = <<>>
        /\ idx' = 1
        /\ UNCHANGED disk

EditConfig == EditConfigIn(DOMAIN Edits)

(***************************************************************************)
(* SpecNoUtilities: the pipeline with utility-class generation disabled    *)
(***************************************************************************)
InitNoUtilities ==
    InitWith(Configs, AllDisks,
             {[DefaultOptions EXCEPT !.caching = c, !.utilities = FALSE] : c \in BOOLEAN},
             {SameDir}, {NoCacheFile})

SpecNoUtilities == InitNoUtilities /\ [][Next]_vars

(***************************************************************************)
(* SpecCache: runs with caching enabled, in every pair of working and root *)
(* directory, with the environment changing between the runs               *)
(***************************************************************************)
CacheConfig == <<ReqDemo, ReqIcon>>

\* a cache.json left by an earlier version of the module
OldVersionCache == Snapshot(0, generateConfigHash(CacheConfig), <<>>, "0.9.0")

StandardDisk == [p \in Packages |-> Installed(p, "metadata.json")]

CacheDisks ==
    {[p \in Packages |-> IF p = "pkg-a" THEN a ELSE m] :
        a \in {Installed("pkg-a", "metadata.json"), Installed("pkg-a", "font-metadata.json"),
               PackageDir("pnpm", "metadata.json", TRUE, InstalledFiles("pkg-a"))},
        m \in {Absent, Installed("material-symbols", "metadata.json")}}

InitCache ==
    \/ InitWith({CacheConfig}, CacheDisks, {DefaultOptions}, {SameDir},
                {NoCacheFile, OldVersionCache})
    \/ InitWith({CacheConfig}, {StandardDisk}, {DefaultOptions}, Dirs, {NoCacheFile})

NextCache ==
    \/ SetupRun
    \/ CacheDecision
    \/ WatchRun
    \/ ProcessNextFont
    \/ WriteStylesheet
    \/ WriteDocs
    \/ UpdateCache
    \/ GenerateTypes
    \/ Restart
    \/ Tick
    \/ TouchMetadata
    \/ RemoveSourceFile
    \/ EditConfig

SpecCache == InitCache /\ [][NextCache]_vars

(***************************************************************************)
(* SpecTTL: runs with caching enabled on one installation, with time       *)
(* passing and the priority of a request edited between the runs           *)
(***************************************************************************)
InitTTL ==
    InitWith({CacheConfig}, {StandardDisk}, {DefaultOptions}, {SameDir},
             {NoCacheFile, OldVersionCache})

EditPriority == EditConfigIn({"priority"})

NextTTL ==
    \/ Next
    \/ Tick
    \/ EditPriority

SpecTTL == InitTTL /\ [][NextTTL]_vars


(***************************************************************************)
(* SpecCacheErrors: runs with caching enabled over a cache file that is    *)
(* absent, corrupt or unreadable, with clearCache called between the runs  *)
(***************************************************************************)
\* cache.json after clearCache: existsSync, readFileSync and JSON.parse come
\* first, then the write of the backup, then unlinkSync; a throw of any of them
\* ends the call in its catch block with the file still there
clearCache(cache, backupWritten, unlinked) ==
    IF cache.kind = "snapshot" /\ backupWritten /\ unlinked THEN NoCacheFile ELSE cache

\* clearCache with the write of the backup in a try/catch of its own: cache.json
\* is unlinked also when the backup was not written
ClearCache_UnlinksAnyway ==
    /\ pc \in {"start", "idle", "failed"}
    /\ IF cacheFile.kind = "snapshot"
       THEN \E backupWritten \in BOOLEAN : \E unlinked \in BOOLEAN :
               /\ backups' = IF backupWritten
                             THEN [t \in DOMAIN backups \cup {now} |->
                                      IF t = now THEN cacheFile ELSE backups[t]]
                             ELSE backups
               /\ IF unlinked
                  THEN cacheFile' = NoCacheFile /\ cacheMtime' = 0
                  ELSE UNCHANGED <<cacheFile, cacheMtime>>
       ELSE UNCHANGED <<backups, cacheFile, cacheMtime>>
    /\ UNCHANGED <<configFile, fonts, options, disk, cwd, rootDir, outDirExists, metrics,
                   overlap, outDir, cssFile, docsFile, typesFile, now, pc, force,
                   processedFonts, sortedFonts, idx, cacheValid, outcome, throwAt, runs,
                   runWrites, sinceCache, changes>>

\* CacheManager.clearCache: the backup is written, then cache.json is
\* unlinked; whatever throws on the way is caught and logged
ClearCache ==
    /\ pc \in {"start", "idle", "failed"}
    /\ IF cacheFile.kind = "snapshot"
       THEN \E backupWritten \in BOOLEAN : \E unlinked \in BOOLEAN :
               /\ backups' = IF backupWritten
                             THEN [t \in DOMAIN backups \cup {now} |->
                                      IF t = now THEN cacheFile ELSE backups[t]]
                             ELSE backups
               /\ cacheFile' = clearCache(cacheFile, backupWritten, unlinked)
               /\ cacheMtime' = IF backupWritten /\ unlinked THEN 0 ELSE cacheMtime
       ELSE /\ cacheFile' = clearCache(cacheFile, TRUE, TRUE)
            /\ UNCHANGED <<backups, cacheMtime>>
    /\ UNCHANGED <<configFile, fonts, options, disk, cwd, rootDir, outDirExists, metrics,
                   overlap, outDir, cssFile, docsFile, typesFile, now, pc, force,
                   processedFonts, sortedFonts, idx, cacheValid, outcome, throwAt, runs,
                   runWrites, sinceCache, changes>>

InitCacheErrors ==
    InitWith({CacheConfig}, {StandardDisk}, {DefaultOptions}, {SameDir},
             {NoCacheFile, CorruptCache, UnreadableCache})

NextCacheErrors ==
    \/ Next
    \/ Tick
    \/ ClearCache

SpecCacheErrors == InitCacheErrors /\ [][NextCacheErrors]_vars

(***************************************************************************)
(* SpecSingleFile: the pipeline on one variable font whose package holds   *)
(* one file                                                                *)
(***************************************************************************)
ReqSingle ==
    [Request("pkg-a", "Demo", TRUE) EXCEPT
        !.subsets = <<<<"latin">>>>, !.styles = <<<<"normal">>>>, !.axes = <<<<"wght">>>>]

\* files/demo-latin-wght-normal.woff2 and nothing else
SingleFile == <<Entry(<<"demo", "latin", "wght", "normal">>, ".woff2", "c1", TRUE)>>

SingleFileDisk ==
    [p \in Packages |->
        IF p = "pkg-a" THEN PackageDir("plain", "metadata.json", TRUE, SingleFile) ELSE Absent]

InitSingleFile ==
    InitWith({<<ReqSingle>>}, {SingleFileDisk},
             {[DefaultOptions EXCEPT !.caching = c, !.fallbacks = f, !.customProperties = p] :
                 c \in BOOLEAN, f \in BOOLEAN, p \in BOOLEAN},
             {SameDir}, {NoCacheFile})

SpecSingleFile == InitSingleFile /\ [][Next]_vars

(***************************************************************************)
(* SpecResolver: the pipeline on a package with files of several subsets, *)
(* styles and weights, requested in every order                            *)
(***************************************************************************)
\* files/ of a package with two subsets, in directory order
ManyFiles ==
    <<Entry(<<"demo", "cyrillic", "400", "italic">>, ".woff2", "d1", TRUE),
      Entry(<<"demo", "cyrillic", "400", "normal">>, ".woff2", "d2", TRUE),
      Entry(<<"demo", "cyrillic", "wght", "italic">>, ".woff2", "d3", TRUE),
      Entry(<<"demo", "cyrillic", "wght", "normal">>, ".woff2", "d4", TRUE),
      Entry(<<"demo", "latin", "400", "italic">>, ".woff2", "d5", TRUE),
      Entry(<<"demo", "latin", "400", "normal">>, ".woff2", "d6", TRUE),
      Entry(<<"demo", "latin", "700", "normal">>, ".woff2", "d7", TRUE),
      Entry(<<"demo", "latin", "wght", "italic">>, ".woff2", "d8", TRUE),
      Entry(<<"demo", "latin", "wght", "normal">>, ".woff2", "d9", TRUE)>>

ManyFilesDisk ==
    [p \in Packages |->
        IF p = "pkg-a" THEN PackageDir("plain", "metadata.json", TRUE, ManyFiles) ELSE Absent]

SubsetOrders == {<<"latin">>, <<"cyrillic">>, <<"latin", "cyrillic">>, <<"cyrillic", "latin">>}

StyleOrders == {<<"normal">>, <<"normal", "italic">>, <<"italic", "normal">>}

WeightOrders == {<<400>>, <<400, 700>>, <<700, 400>>}

ResolverConfigs ==
    {<<[Request("pkg-a", "Demo", v) EXCEPT
           !.subsets = <<sub>>, !.styles = <<sty>>, !.weights = <<w>>]>> :
        v \in BOOLEAN, sub \in SubsetOrders, sty \in StyleOrders, w \in WeightOrders}

InitResolver ==
    InitWith(ResolverConfigs, {ManyFilesDisk}, {DefaultOptions}, {SameDir}, {NoCacheFile})

SpecResolver == InitResolver /\ [][Next]_vars

(***************************************************************************)
(* SpecOutputDir: runs in a development session in which the output        *)
(* directory is removed between the runs                                   *)
(***************************************************************************)
\* rm -r of the output directory while no run is in progress
RemoveOutputDirectory ==
    /\ Quiescent
    /\ outDirExists
    /\ outDirExists' = FALSE
    /\ outDir' = {}
    /\ UNCHANGED <<configFile, fonts, options, disk, cwd, rootDir, cssFile, docsFile,
                   typesFile, cacheFile, cacheMtime, backups, metrics, overlap, now, pc, force,
                   processedFonts, sortedFonts, idx, cacheValid, outcome, throwAt, runs,
                   runWrites, sinceCache, changes>>

InitOutputDir ==
    InitWith({<<ReqDemo>>, <<ReqDemo, ReqIcon>>, <<ReqIcon, ReqStatic>>}, {StandardDisk},
             {[DefaultOptions EXCEPT !.caching = c, !.generateDocs = g, !.fallbacks = f] :
                 c \in BOOLEAN, g \in BOOLEAN, f \in BOOLEAN},
             {SameDir}, {NoCacheFile})

NextOutputDir == Next \/ RemoveOutputDirectory

SpecOutputDir == InitOutputDir /\ [][NextOutputDir]_vars

(***************************************************************************)
(* SpecMetrics: getFallbackMetricsForFont on family names of every tier    *)
(***************************************************************************)
FamilyNames ==
    {"Inter", "Inter Variable", "Roboto Variable", "Lora", "Fira Code",
     "Some Mono Variable", "Cascadia Code", "DejaVu MONO", "Mono Serif",
     "Bitter Serif", "PT Sans Serif", "Material Symbols", "Line Icons",
     "Demo", "Demo Variable", "constructor"}

\* the optional argument customFallback
CustomFallbacks == {<<>>, <<"">>, <<"Helvetica, sans-serif">>, <<"system-ui">>}

\* requests with and without a custom fallback, for variable and static fonts
MetricsConfigs ==
    {<<ReqDemo>>, <<[ReqDemo EXCEPT !.fallback = <<"system-ui">>], ReqIcon>>,
     <<ReqIcon, ReqStatic>>}

InitMetrics ==
    InitWith(MetricsConfigs, {StandardDisk},
             {[DefaultOptions EXCEPT !.fallbacks = f] : f \in BOOLEAN},
             {SameDir}, {NoCacheFile})

\* the first call getFallbackMetricsForFont(fontFamily, customFallback); the
\* function keeps no state, a later call returns what a first one would
CallGetFallbackMetricsForFont ==
    /\ metrics = <<>>
    /\ \E fontFamily \in FamilyNames : \E customFallback \in CustomFallbacks :
          metrics' = <<[fontFamily |-> fontFamily, customFallback |-> customFallback,
                        value |-> getFallbackMetricsForFont(fontFamily, customFallback)]>>
    /\ UNCHANGED <<configFile, fonts, options, disk, cwd, rootDir, outDirExists, backups,
                   overlap, outVars, now, pc, force, processedFonts, sortedFonts, idx,
                   cacheValid, outcome, throwAt, runs, runWrites, sinceCache, changes>>

NextMetrics == Next \/ CallGetFallbackMetricsForFont

SpecMetrics == InitMetrics /\ [][NextMetrics]_vars

(***************************************************************************)
(* SpecPriority: the pipeline on three requests with every choice of       *)
(* priorities                                                              *)
(***************************************************************************)
\* the optional field priority
Priorities == {<<>>, <<0>>, <<5>>, <<10>>}

PriorityConfigs ==
    {<<[ReqDemo EXCEPT !.priority = p1], [ReqIcon EXCEPT !.priority = p2],
       [ReqStatic EXCEPT !.priority = p3]>> :
        p1 \in Priorities, p2 \in Priorities, p3 \in Priorities}

InitPriority ==
    InitWith(PriorityConfigs, {StandardDisk}, {DefaultOptions}, {SameDir}, {NoCacheFile})

SpecPriority == InitPriority /\ [][Next]_vars

(***************************************************************************)
(* SpecRanges: the pipeline on requests with and without unicode ranges,   *)
(* over a package with either metadata file                                *)
(***************************************************************************)
RangeConfigs ==
    {<<[ReqDemo EXCEPT !.subsets = <<<<"latin", "cyrillic">>>>, !.unicodeRanges = r]>> :
        r \in {<<>>, <<[latin |-> "U+0000-00FF"]>>, <<[cyrillic |-> "U+0400-04FF"]>>}}

RangeDisks ==
    {[p \in Packages |->
         IF p = "pkg-a" THEN PackageDir("plain", meta, TRUE, ManyFiles) ELSE Absent] :
        meta \in {"metadata.json", "font-metadata.json"}}

InitRanges ==
    InitWith(RangeConfigs, RangeDisks,
             {[DefaultOptions EXCEPT !.caching = c, !.utilities = u] :
                 c \in BOOLEAN, u \in BOOLEAN},
             {SameDir}, {NoCacheFile})

SpecRanges == InitRanges /\ [][Next]_vars

(***************************************************************************)
(* SpecIcons: the pipeline on the icon font, over metadata with all, some  *)
(* and none of the four axes                                               *)
(***************************************************************************)
IconAxes == {"FILL", "wght", "GRAD", "opsz"}

\* the metadata of the icon package with only the given axes
IconMetadata(tags) ==
    LET m == MetadataJson("material-symbols")
    IN  [m EXCEPT !.axes = [a \in tags |-> m.axes[a]]]

IconAxisSets == {IconAxes, IconAxes \ {"FILL"}, {"wght"}, {}}

IconDisks ==
    {[p \in Packages |->
         IF p = "pkg-a" THEN Installed(p, "metadata.json")
         ELSE WithMetadata(Installed(p, "metadata.json"), IconMetadata(tags))] :
        tags \in IconAxisSets}

InitIcons ==
    InitWith({<<ReqIcon>>, <<ReqDemo, ReqIcon>>}, IconDisks,
             {[DefaultOptions EXCEPT !.utilities = u, !.caching = c] :
                 u \in BOOLEAN, c \in BOOLEAN},
             {SameDir}, {NoCacheFile})

SpecIcons == InitIcons /\ [][Next]_vars

(***************************************************************************)
(* SpecRetry: runs with caching enabled that begin with a package missing, *)
(* the package being installed between the runs                            *)
(***************************************************************************)
\* npm install of a package that is not in node_modules
InstallPackage ==
    /\ Changed("install")
    /\ \E p \in Packages :
          /\ disk[p].loc = "none"
          /\ disk' = [disk EXCEPT ![p] = [Installed(p, "metadata.json") EXCEPT
                                             !.metaMtime = now, !.pkgJsonMtime = now]]
    /\ UNCHANGED <<configFile, fonts, pc, force, processedFonts, sortedFonts, idx, runWrites>>

RetryDisks ==
    {[p \in Packages |-> IF p \in missing THEN Absent ELSE Installed(p, "metadata.json")] :
        missing \in {{"pkg-a"}, {"material-symbols"}, Packages}}

InitRetry ==
    InitWith({<<ReqDemo>>, <<ReqDemo, ReqIcon>>, <<ReqIcon, ReqStatic>>}, RetryDisks,
             {[DefaultOptions EXCEPT !.utilities = u, !.generateDocs = g] :
                 u \in BOOLEAN, g \in BOOLEAN},
             {SameDir}, {NoCacheFile})

NextRetry == Next \/ Tick \/ InstallPackage

SpecRetry == InitRetry /\ [][NextRetry]_vars

(***************************************************************************)
(* SpecOverlap: a builder:watch event while a processFonts call is running *)
(***************************************************************************)
\* the locals of the running processFonts call and of the processAll it is in
CallLocals ==
    [pc |-> pc, force |-> force, sortedFonts |-> sortedFonts, idx |-> idx,
     cacheValid |-> cacheValid, outcome |-> outcome, throwAt |-> throwAt]

\* the running call is inside await this.processFont(fontConfig), its result
\* not yet pushed
AtAwait == pc = "processing" /\ idx <= Len(sortedFonts)

\* a second builder:watch event while the handler of a first one is at an
\* await of processAll: the hook calls processFonts(true) again, and the new
\* processAll replaces this.processedFonts of the one FontProcessor
StartOverlappingRun ==
    /\ AtAwait
    /\ force
    /\ overlap = <<>>
    /\ runs < MaxRuns + MaxOverlap
    /\ overlap' = <<CallLocals>>
    /\ runs' = runs + 1
    /\ throwAt' = "none"
    /\ outcome' = "running"
    /\ BeginProcessAll(fonts)
    /\ UNCHANGED <<configFile, options, disk, cwd, rootDir, outDirExists, backups, metrics,
                   now, changes, outVars, fonts, force, cacheValid, sinceCache>>

\* the event loop going on with the suspended call, when the running one is
\* at an await of processAll or has ended
ResumeCall ==
    /\ overlap # <<>>
    /\ AtAwait \/ Quiescent
    /\ pc' = overlap[1].pc
    /\ force' = overlap[1].force
    /\ sortedFonts' = overlap[1].sortedFonts
    /\ idx' = overlap[1].idx
    /\ cacheValid' = overlap[1].cacheValid
    /\ outcome' = overlap[1].outcome
    /\ throwAt' = overlap[1].throwAt
    /\ overlap' = IF Quiescent THEN <<>> ELSE <<CallLocals>>
    /\ UNCHANGED <<configFile, options, disk, cwd, rootDir, outDirExists, backups, metrics,
                   now, changes, outVars, fonts, processedFonts, runs, runWrites,
                   sinceCache>>

InitOverlap ==
    InitWith(Configs, AllDisks, {[DefaultOptions EXCEPT !.caching = c] : c \in BOOLEAN},
             {SameDir}, {NoCacheFile})

NextOverlap ==
    \/ SetupRun
    \/ CacheDecision
    \/ WatchRun
    \/ ProcessNextFont
    \/ WriteStylesheet
    \/ WriteDocs
    \/ UpdateCache
    \/ GenerateTypes
    \/ StartOverlappingRun
    \/ ResumeCall

SpecOverlap == InitOverlap /\ [][NextOverlap]_vars

(***************************************************************************)
(* SpecSubsets: the pipeline on a package that ships the extended subsets  *)
(***************************************************************************)
\* files/ of a package with latin, latin-ext and cyrillic-ext files
ExtFiles ==
    <<Entry(<<"demo", "cyrillic", "ext", "400", "normal">>, ".woff2", "e1", TRUE),
      Entry(<<"demo", "latin", "400", "normal">>, ".woff2", "e2", TRUE),
      Entry(<<"demo", "latin", "ext", "400", "normal">>, ".woff2", "e3", TRUE),
      Entry(<<"demo", "latin", "ext", "700", "italic">>, ".woff2", "e4", TRUE),
      Entry(<<"demo", "latin", "ext", "wght", "normal">>, ".woff2", "e5", TRUE),
      Entry(<<"demo", "latin", "wght", "normal">>, ".woff2", "e6", TRUE)>>

ExtFilesDisk ==
    [p \in Packages |->
        IF p = "pkg-a" THEN PackageDir("plain", "metadata.json", TRUE, ExtFiles) ELSE Absent]

\* config.subsets: undefined, or a list with and without the hyphenated names
SubsetChoices ==
    {<<>>, <<<<"latin">>>>, <<<<"latin-ext">>>>, <<<<"cyrillic-ext">>>>,
     <<<<"latin", "latin-ext">>>>}

SubsetConfigs ==
    {<<[Request("pkg-a", "Demo", v) EXCEPT !.subsets = sub, !.styles = <<sty>>, !.weights = w]>> :
        v \in BOOLEAN, sub \in SubsetChoices, sty \in {<<"normal">>, <<"normal", "italic">>},
        w \in {<<>>, <<<<400>>>>, <<<<700>>>>}}

InitSubsets ==
    InitWith(SubsetConfigs, {ExtFilesDisk}, {DefaultOptions}, {SameDir}, {NoCacheFile})

SpecSubsets == InitSubsets /\ [][Next]_vars

(***************************************************************************)
(* SpecHash: generateConfigHash on the reorderings of a list of requests   *)
(***************************************************************************)
ReqWide ==
    [Request("pkg-a", "Demo", TRUE) EXCEPT
        !.weights = <<<<400, 100, 700>>>>, !.styles = <<<<"normal", "italic">>>>,
        !.subsets = <<<<"latin-ext", "latin">>>>, !.axes = <<<<"wght", "opsz">>>>]

HashConfigs == {<<ReqDemo, ReqIcon>>, <<ReqDemo, ReqStatic>>, <<ReqWide, ReqIcon, ReqStatic>>}

ArrayFields == {"weights", "styles", "subsets", "axes"}

\* s with its elements at k and k + 1 exchanged
Swap(s, k) == [s EXCEPT ![k] = s[k + 1], ![k + 1] = s[k]]

InitHash == InitWith(HashConfigs, {StandardDisk}, {DefaultOptions}, {SameDir}, {NoCacheFile})

hashFixed ==
    <<configFile, options, disk, cwd, rootDir, outDirExists, backups, metrics, overlap,
      outVars, now, pc, force, processedFonts, sortedFonts, idx, cacheValid, outcome,
      throwAt, runs, runWrites, sinceCache, changes>>

\* two neighbours of the list of requests change places
ReorderList ==
    /\ \E k \in 1..(Len(fonts) - 1) : fonts' = Swap(fonts, k)
    /\ UNCHANGED hashFixed

\* two neighbours of an array field of a request change places
ReorderField ==
    /\ \E i \in 1..Len(fonts) : \E field \in ArrayFields :
          /\ IsDef(fonts[i][field])
          /\ \E k \in 1..(Len(fonts[i][field][1]) - 1) :
                fonts' = [fonts EXCEPT ![i][field] = <<Swap(@[1], k)>>]
    /\ UNCHANGED hashFixed

\* generateConfigHash(fonts) is called: the arrays of the requests are sorted
\* in place
HashConfig ==
    /\ fonts' = FontsAfterHash(fonts)
    /\ fonts' # fonts
    /\ UNCHANGED hashFixed

NextHash ==
    \/ ReorderList
    \/ ReorderField
    \/ HashConfig

SpecHash == InitHash /\ [][NextHash]_vars

(***************************************************************************)
(* Claims on the pipeline (Spec)                                           *)
(***************************************************************************)
\* processAll has returned in this process and its result is still there
ProcessAllReturned ==
    \/ pc = "processing" /\ idx > Len(sortedFonts)
    \/ pc \in {"docs", "cache", "types"}
    \/ Quiescent /\ outcome \in {"done", "threw"}

FailedWith(font, kind) ==
    font.errors = <<[kind |-> kind, package |-> font.config.package]>>

\* C1: processAll returns exactly one ProcessedFont per configured font, in the
\* processing order; a font whose package is not found, whose metadata is
\* missing or for which no file is found has that failure in its errors, and the
\* fonts after it are processed all the same.
C1_OnePerFont ==
    /\ pc = "processing" => Len(processedFonts) = idx - 1
    /\ ProcessAllReturned =>
          /\ Len(processedFonts) = Len(fonts)
          /\ \A i \in 1..Len(processedFonts) :
                LET font == processedFonts[i]
                    dir == disk[font.config.package]
                IN  /\ font.config = sortedFonts[i]
                    /\ dir.loc = "none" => FailedWith(font, "PackageNotFound")
                    /\ dir.loc # "none" /\ dir.meta = "none" => FailedWith(font, "NoMetadata")
                    /\ dir.loc # "none" /\ dir.meta # "none" /\ dir.filesDir
                          /\ dir.files = <<>> => FailedWith(font, "NoFilesFound")

\* a font failed and the font after it was processed successfully
C1_Witness ==
    /\ pc = "processing" /\ idx > Len(sortedFonts)
    /\ Len(processedFonts) = 2
    /\ HasErrors(processedFonts[1])
    /\ ~HasErrors(processedFonts[2])
    /\ Len(processedFonts[2].files) > 0

\* C2: a run of processFonts in which a font fails with a per-font error still
\* completes; processFonts throws only when the write of the stylesheet fails
\* (or the write of the documentation, the other write that may propagate).
C2_RunFailsOnlyOnStylesheetWrite ==
    outcome = "threw" => throwAt \in {"writeStylesheet", "writeDocs"}

\* C3: in every ProcessedFont of the result list non-empty errors imply empty
\* files, and the entry of a package that is not installed has a
\* package-not-found error and no files.
C3_ErrorsImplyNoFiles ==
    \A i \in 1..Len(processedFonts) :
        LET font == processedFonts[i]
        IN  /\ HasErrors(font) => font.files = <<>>
            /\ disk[font.config.package].loc = "none" =>
                  /\ \E k \in 1..Len(font.errors) : font.errors[k].kind = "PackageNotFound"
                  /\ font.files = <<>>

\* the result list holds a package-not-found entry and an entry that failed
\* while its files were being copied
C3_Witness ==
    \E i, j \in 1..Len(processedFonts) :
        /\ FailedWith(processedFonts[i], "PackageNotFound")
        /\ FailedWith(processedFonts[j], "ReadFailed")

\* C4: when the processing of a font fails, that processing has written no
\* asset file of the font to the output directory.
C4_NoPartialPublication ==
    \A i \in 1..Len(processedFonts) :
        (i <= Len(runWrites) /\ HasErrors(processedFonts[i])) => runWrites[i] = {}

\* C5: generateCSS never aborts because of a failed font: every failed font is
\* one error comment with its family and errors, has no custom property and no
\* utility class, and the face blocks of the other fonts are emitted.
C5_GenerateCSSNeverAborts ==
    ProcessAllReturned =>
        LET css == generateCSS(processedFonts, options)
            failed == SelectSeq(processedFonts, HasErrors)
            good == SelectSeq(processedFonts, LAMBDA f : ~HasErrors(f))
            comments == SelectSeq(css.faces, LAMBDA b : b.kind = "error")
            faces == SelectSeq(css.faces, LAMBDA b : b.kind = "face")
        IN  /\ ~css.threw
            /\ Len(comments) = Len(failed)
            /\ \A k \in 1..Len(failed) :
                  /\ comments[k].family = failed[k].config.family
                  /\ comments[k].errors = failed[k].errors
            /\ Len(css.props) = IF options.customProperties THEN Len(good) ELSE 0
            /\ (\A k \in 1..Len(good) : ~IsMaterialSymbols(good[k].config.package))
                  => css.utils = <<>>
            /\ Len(faces) = SeqSum([k \in 1..Len(good) |-> Len(good[k].files)])

(***************************************************************************)
(* Claims on the cache (SpecCache, SpecTTL)                                *)
(***************************************************************************)
\* cache.json was written by updateCache of this version of the module, and
\* neither nuxt.config nor node_modules changed since
SnapshotIsFresh ==
    /\ cacheFile.kind = "snapshot"
    /\ cacheFile.version = moduleVersion
    /\ sinceCache = <<>>

\* a file recorded in the snapshot is no longer in its package
RecordedFileMissing ==
    \E i \in 1..Len(cacheFile.fonts) : \E j \in 1..Len(cacheFile.fonts[i].files) :
        LET path == cacheFile.fonts[i].files[j].path
        IN  \/ disk[path.pkg].loc = "none"
            \/ ~disk[path.pkg].filesDir
            \/ \A e \in Range(disk[path.pkg].files) : e.name # path.file

\* the metadata file of the package of a cached font is newer than cache.json
\* by more than the tolerance
MetadataNewerThanCache ==
    \E i \in 1..Len(cacheFile.fonts) :
        LET dir == disk[cacheFile.fonts[i].config.package]
        IN  /\ dir.loc # "none"
            /\ dir.meta # "none"
            /\ dir.metaMtime > cacheMtime + Tolerance

\* C6: isCacheValid returns false when, since the snapshot was written, exactly
\* one field of one request was changed (package, family, variable, weights,
\* styles, subsets, axes, display, fallback, priority or unicodeRanges) and
\* nothing else.
C6_AnyFieldChangeInvalidates ==
    (/\ pc = "checked"
     /\ cacheFile.kind = "snapshot"
     /\ cacheFile.version = moduleVersion
     /\ Len(sinceCache) = 1
     /\ sinceCache[1] \in DOMAIN Edits) => cacheValid = <<FALSE>>

\* C7: a run that follows a run with caching enabled, with no change to the
\* configuration or the file system in between and within the time to live,
\* finds the cache valid, skips the processing and writes no file.
C7_SecondRunIsCacheHit ==
    [][(pc = "checked" /\ SnapshotIsFresh /\ now - cacheFile.timestamp <= cacheTTL)
          => /\ cacheValid = <<TRUE>>
             /\ pc' = "idle"
             /\ outcome' = "hit"
             /\ outVars' = outVars]_vars

\* C9: isCacheValid returns false when there is no cache file, when the
\* version of the snapshot is not the module version, when the snapshot is
\* older than the time to live, and when the hash of the requests is not the
\* hash in the snapshot; a fresh snapshot whose age is exactly the time to live
\* is still valid.
C9_RejectsStaleSnapshots ==
    pc = "checked" =>
        /\ (\/ cacheFile.kind = "none"
            \/ cacheFile.version # moduleVersion
            \/ now - cacheFile.timestamp > cacheTTL
            \/ generateConfigHash(fonts) # cacheFile.configHash) => cacheValid = <<FALSE>>
        /\ (SnapshotIsFresh /\ now - cacheFile.timestamp = cacheTTL) => cacheValid = <<TRUE>>

\* the cache check has accepted a fresh snapshot of exactly the time to live
C9_Witness ==
    /\ pc = "checked"
    /\ SnapshotIsFresh
    /\ now - cacheFile.timestamp = cacheTTL
    /\ cacheValid = <<TRUE>>

\* C10: isCacheValid returns false when a file recorded for a font of the
\* snapshot is missing from disk, and when the metadata file of the package of
\* a font of the snapshot is newer than cache.json by more than the tolerance.
C10_DetectsMissingFilesAndNewerMetadata ==
    (/\ pc = "checked"
     /\ cacheFile.kind = "snapshot"
     /\ RecordedFileMissing \/ MetadataNewerThanCache) => cacheValid = <<FALSE>>

\* the requests of f are the requests of g in some order
SameUpToOrder(f, g) ==
    /\ Len(f) = Len(g)
    /\ \E p \in [1..Len(f) -> 1..Len(f)] :
          /\ \A i, j \in 1..Len(f) : p[i] = p[j] => i = j
          /\ \A i \in 1..Len(f) : \A field \in DOMAIN f[i] :
                IF field \in ArrayFields /\ IsDef(f[i][field]) /\ IsDef(g[p[i]][field])
                THEN /\ Len(f[i][field][1]) = Len(g[p[i]][field][1])
                     /\ Range(f[i][field][1]) = Range(g[p[i]][field][1])
                ELSE f[i][field] = g[p[i]][field]

\* C8: two lists of requests that differ only in the order of the list and in
\* the order of the weights, styles, subsets and axes of their requests have
\* the same configuration hash, also when two requests name the same package.
C8_HashIsOrderIndependent ==
    SameUpToOrder(fonts, configFile) => generateConfigHash(fonts) = generateConfigHash(configFile)

(***************************************************************************)
(* Claims on cache errors and clearCache (SpecCacheErrors)                 *)
(***************************************************************************)
\* C11: a corrupt or unreadable cache file is a cache miss and no throw; no
\* run is rejected by isCacheValid or updateCache; after the updateCache step,
\* whether its write succeeded or not, the run goes on with the stylesheet of
\* its results on disk, and it ends in a throw only when a write of the
\* stylesheet or of the documentation failed.
C11_CacheErrorsNeverAbort ==
    /\ (pc = "checked" /\ cacheFile.kind \in {"corrupt", "unreadable"})
          => (cacheValid = <<FALSE>> /\ outcome = "running")
    /\ throwAt \notin {"isCacheValid", "updateCache"}
    /\ pc = "types" => (cssFile # <<>> /\ outcome = "running")
    /\ outcome = "threw" => throwAt \in {"writeStylesheet", "writeDocs"}

\* the write of the snapshot failed over a corrupt cache file and the run
\* completed
C11_Witness ==
    /\ pc = "idle"
    /\ outcome = "done"
    /\ runs = 1
    /\ cacheFile.kind = "corrupt"
    /\ cssFile # <<>>

\* C12: a step that removes cache.json leaves a backup named after the
\* current time that holds the content cache.json had, and no step removes a
\* backup or changes one, unless a later clearCache in the same millisecond
\* writes the backup of that name again.
C12_ClearKeepsBackup ==
    /\ [][(cacheFile.kind # "none" /\ cacheFile'.kind = "none")
             => (now \in DOMAIN backups' /\ backups'[now] = cacheFile)]_vars
    /\ [][\A t \in DOMAIN backups :
             t \in DOMAIN backups' /\ (t # now => backups'[t] = backups[t])]_vars

\* clearCache has removed a snapshot that a run had written, and its backup
\* is in the cache directory
C12_Witness ==
    /\ cacheFile.kind = "none"
    /\ runs > 0
    /\ \E t \in DOMAIN backups :
          backups[t].kind = "snapshot" /\ backups[t].version = moduleVersion

(***************************************************************************)
(* Claims on the resolver, the publisher and the stylesheet                *)
(***************************************************************************)
\* C13: for the variable font with subsets [latin], styles [normal] and axes
\* [wght] whose package holds the one file demo-latin-wght-normal.woff2, the
\* result has exactly one published file, /fonts/demo-latin-normal-<hash>.woff2,
\* and the stylesheet has exactly one face block of the family, with the weight
\* pair 400 700 and the format woff2-variations.
C13_SingleFileEndToEnd ==
    (ProcessAllReturned /\ fonts = <<ReqSingle>> /\ disk = SingleFileDisk) =>
        LET font == processedFonts[1]
            css == generateCSS(processedFonts, options)
            faces == SelectSeq(css.faces, LAMBDA b : b.kind = "face")
        IN  /\ ~HasErrors(font)
            /\ Len(font.files) = 1
            /\ font.files[1].url =
                  [base |-> "/fonts",
                   name |-> [slug |-> "demo", subset |-> "latin", style |-> "normal",
                             hash |-> "c1", ext |-> ".woff2"]]
            /\ Len(faces) = 1
            /\ faces[1].family = "Demo"
            /\ faces[1].weight = <<400, 700>>
            /\ faces[1].format = [container |-> "woff2", variations |-> TRUE]

\* the file names of the files of a list that are in one class of the order
NamesInClass(files, latin, normal) ==
    LET inClass == SelectSeq(files, LAMBDA f : (f.subset = "latin") = latin
                                                /\ (f.style = "normal") = normal)
    IN  [i \in 1..Len(inClass) |-> inClass[i].fileName]

\* C14: in the files of a processed font the latin files come before the files
\* of the other subsets and, among the latin files and among the others, the
\* normal files before the others; files that the order does not tell apart
\* stay in the order the patterns matched them. So no file that is not latin
\* or not normal comes before a file that is latin and normal. (Read while the
\* run is between processAll and updateCache, where the request in the result
\* is still the one the patterns were built from.)
C14_ResolverOrder ==
    \A i \in 1..Len(processedFonts) :
        (pc \in {"processing", "docs", "cache"} /\ ~HasErrors(processedFonts[i])) =>
            LET font == processedFonts[i]
                files == font.files
                matched == MatchList(disk, rootDir \o <<"/">>, font.config, font.metadata)
            IN  /\ \A j \in 1..Len(files) : \A k \in (j + 1)..Len(files) :
                      /\ files[k].subset = "latin" => files[j].subset = "latin"
                      /\ ((files[j].subset = "latin") = (files[k].subset = "latin")
                              /\ files[k].style = "normal") => files[j].style = "normal"
                      /\ (files[k].subset = "latin" /\ files[k].style = "normal")
                            => (files[j].subset = "latin" /\ files[j].style = "normal")
                /\ Len(files) = Len(matched)
                /\ \A latin \in BOOLEAN : \A normal \in BOOLEAN :
                      NamesInClass(files, latin, normal) = NamesInClass(matched, latin, normal)

\* a processed font whose matches began with a cyrillic italic file, with a
\* latin italic file placed before a cyrillic normal one and two different
\* files in the class of the latin normal files
C14_Witness ==
    /\ disk = ManyFilesDisk
    /\ pc = "docs"
    /\ Len(processedFonts) = 1
    /\ ~HasErrors(processedFonts[1])
    /\ LET font == processedFonts[1]
           files == font.files
           matched == MatchList(disk, rootDir \o <<"/">>, font.config, font.metadata)
       IN  /\ matched[1].subset = "cyrillic" /\ matched[1].style = "italic"
           /\ files[1].subset = "latin" /\ files[1].style = "normal"
           /\ \E j \in 1..Len(files) : \E k \in (j + 1)..Len(files) :
                 /\ files[j].subset = "latin" /\ files[j].style = "italic"
                 /\ files[k].subset = "cyrillic" /\ files[k].style = "normal"
           /\ Cardinality(Range(NamesInClass(files, TRUE, TRUE))) > 1

\* every file of the results is published under the name made of the slug of
\* its family, its subset, its style, the digest of its content and its
\* extension, and that name is in the output directory
PublishedByContent ==
    \A i \in 1..Len(processedFonts) :
        LET font == processedFonts[i]
        IN  \A k \in 1..Len(font.files) :
                LET file == font.files[k]
                    entry == EntryOf(disk[font.config.package], file.fileName)
                    name == [slug |-> Slug(font.metadata.family), subset |-> file.subset,
                             style |-> file.style, hash |-> entry.content,
                             ext |-> file.fileName.ext]
                IN  /\ file.hash = entry.content
                    /\ file.url = [base |-> "/fonts", name |-> name]
                    /\ name \in outDir

\* C15: the name and URL a file is published under are made of the slug of the
\* family, the subset, the style, the extension and the digest of the content
\* and of nothing else; a run that publishes the unchanged files again writes
\* the names of the run before and adds no file to the output directory.
C15_PublishIsIdempotent ==
    /\ []PublishedByContent
    /\ [][(runs >= 2 /\ pc = "processing") => outDir' = outDir]_vars

\* a second run has published the files of a font again
C15_Witness ==
    /\ runs = 2
    /\ pc = "docs"
    /\ \E i \in 1..Len(processedFonts) : Len(processedFonts[i].files) > 1
    /\ outDir # {}

\* C16: when a run, the first or a later forced one, publishes the files of a
\* font and the output directory does not exist, the directory is created and
\* the copies succeed: no font of the results fails on a copy, and the output
\* directory exists once a font has been published.
C16_PublishCreatesOutputDirectory ==
    \A i \in 1..Len(processedFonts) :
        LET font == processedFonts[i]
        IN  /\ HasErrors(font) => font.errors[1].kind # "CopyFailed"
            /\ (pc \in {"processing", "docs", "cache", "types"} /\ ~HasErrors(font))
                  => outDirExists

(***************************************************************************)
(* Claims on the fallback metrics                                          *)
(***************************************************************************)
\* the tier of a family name: its own table entry, the entry of the name
\* without " Variable", or the defaults of the first category its name has
TierOf(family) ==
    LET lower == ToLowerCase(family)
    IN  IF family \in DOMAIN FallbackTable THEN FallbackTable[family]
        ELSE IF RemoveFirst(family, " Variable") \in DOMAIN FallbackTable
        THEN FallbackTable[RemoveFirst(family, " Variable")]
        ELSE IF Includes(lower, "mono") \/ Includes(lower, "code") THEN MonospaceDefaults
        ELSE IF Includes(lower, "serif") /\ ~Includes(lower, "sans") THEN SerifDefaults
        ELSE IF Includes(lower, "icon") \/ Includes(lower, "symbols") THEN IconDefaults
        ELSE SansSerifDefaults

\* C17: the metrics returned for a family are those of its tier (its table
\* entry; the entry of the name without " Variable"; the monospace defaults for
\* a name with "mono" or "code"; the serif defaults for a name with "serif" and
\* without "sans"; the icon defaults for a name with "icon" or "symbols"; the
\* sans-serif defaults otherwise); a custom fallback string given by the caller
\* takes the place of the stack and the four overrides stay those of the tier.
C17_MetricsByTier ==
    metrics # <<>> =>
        LET call == metrics[1]
            tier == TierOf(call.fontFamily)
        IN  /\ call.value.fallback = IF IsDef(call.customFallback) THEN call.customFallback[1]
                                     ELSE tier.fallback
            /\ call.value.sizeAdjust = tier.sizeAdjust
            /\ call.value.ascentOverride = tier.ascentOverride
            /\ call.value.descentOverride = tier.descentOverride
            /\ call.value.lineGapOverride = tier.lineGapOverride

\* C18: in the stylesheet a run has written, every successfully processed
\* variable font has, when fallbacks are enabled, one '<family> Fallback' face
\* and that face carries the stack and the four overrides that
\* getFallbackMetricsForFont returns for the family and the custom fallback of
\* the request; a static font has no such face, and no font has one when
\* fallbacks are disabled.
C18_FallbackFaceUsesProvider ==
    (pc = "docs" /\ cssFile # <<>>) =>
        \A i \in 1..Len(processedFonts) :
            LET font == processedFonts[i]
                faces == SelectSeq(cssFile[1].faces,
                                   LAMBDA b : b.kind = "fallback"
                                              /\ b.family = font.metadata.family)
            IN  ~HasErrors(font) =>
                    IF options.fallbacks /\ font.config.variable
                    THEN /\ Len(faces) = 1
                         /\ faces[1].metrics =
                               getFallbackMetricsForFont(font.metadata.family,
                                                         font.config.fallback)
                    ELSE faces = <<>>

(***************************************************************************)
(* Claims on the order of the steps of a run                               *)
(***************************************************************************)
\* C19: in a run the stylesheet is written only when every configured font has
\* been processed, and cache.json is written only after that and after the
\* stylesheet of this run is on disk; a run whose stylesheet write failed
\* leaves cache.json as it was.
C19_WritesAfterProcessing ==
    /\ [][cssFile' # cssFile =>
             /\ pc = "processing"
             /\ idx > Len(sortedFonts)
             /\ Len(processedFonts) = Len(fonts)]_vars
    /\ [][cacheFile' # cacheFile =>
             /\ pc = "cache"
             /\ Len(processedFonts) = Len(fonts)
             /\ cssFile = <<generateCSS(processedFonts, options)>>]_vars
    /\ [][(pc' = "failed" /\ throwAt' = "writeStylesheet") => cacheFile' = cacheFile]_vars

\* the forced run after a run that wrote cache.json has failed on the write of
\* the stylesheet
C19_Witness ==
    /\ runs = 2
    /\ pc = "failed"
    /\ throwAt = "writeStylesheet"
    /\ Len(processedFonts) = 2
    /\ cacheFile.kind = "snapshot"
    /\ cssFile # <<>>

\* the position in options.fonts of the request at position i of sortedFonts
ConfigPosition(i) == CHOOSE k \in 1..Len(fonts) : fonts[k] = sortedFonts[i]

\* C20: the fonts are processed one at a time in the order of descending
\* priority, a request without priority counting as priority 0 and requests of
\* equal priority keeping their order in the configuration: a font is started
\* when the results of all fonts before it are in the result list, and the
\* result list is in the processing order.
C20_DescendingPriority ==
    pc \in {"processing", "docs", "cache", "types"} =>
        /\ Len(sortedFonts) = Len(fonts)
        /\ \A k \in 1..Len(fonts) : \E i \in 1..Len(sortedFonts) : sortedFonts[i] = fonts[k]
        /\ \A i \in 1..Len(sortedFonts) : \A j \in (i + 1)..Len(sortedFonts) :
              LET pi == IF sortedFonts[i].priority = <<>> THEN 0 ELSE sortedFonts[i].priority[1]
                  pj == IF sortedFonts[j].priority = <<>> THEN 0 ELSE sortedFonts[j].priority[1]
              IN  /\ pi >= pj
                  /\ pi = pj => ConfigPosition(i) < ConfigPosition(j)
        /\ Len(processedFonts) = idx - 1
        /\ \A i \in 1..Len(processedFonts) : processedFonts[i].config = sortedFonts[i]

\* three fonts have been processed: first the last of the configuration, which
\* has the highest priority, then the first, which has no priority, then the
\* second, which has priority 0
C20_Witness ==
    /\ pc = "docs"
    /\ Len(fonts) = 3
    /\ fonts[1].priority = <<>> /\ fonts[2].priority = <<0>> /\ fonts[3].priority = <<10>>
    /\ Len(processedFonts) = 3
    /\ processedFonts[1].config = fonts[3]
    /\ processedFonts[2].config = fonts[1]
    /\ processedFonts[3].config = fonts[2]

(***************************************************************************)
(* Claims on the face declarations and the utility classes                 *)
(***************************************************************************)
\* the unicode range of subset for a request: the range the request gives,
\* else the one of the package metadata, else the built-in one, else none
RangeFor(config, subset) ==
    IF config.unicodeRanges # <<>> /\ subset \in DOMAIN config.unicodeRanges[1]
    THEN <<config.unicodeRanges[1][subset]>>
    ELSE IF subset \in DOMAIN MetadataJson(config.package).unicodeRange
    THEN <<MetadataJson(config.package).unicodeRange[subset]>>
    ELSE IF subset \in DOMAIN BuiltinRanges THEN <<BuiltinRanges[subset]>>
    ELSE <<>>

\* C21: in the stylesheet a run has written, the face declaration of every file
\* of a successfully processed font carries, for the subset of the file, the
\* unicode range the request gives for it, else the range of the package
\* metadata, else the built-in range, else none, whichever metadata file the
\* package has.
C21_RequestRangeWins ==
    (pc = "docs" /\ cssFile # <<>>) =>
        \A i \in 1..Len(processedFonts) :
            LET font == processedFonts[i]
            IN  \A k \in 1..Len(font.files) :
                    \E b \in Range(cssFile[1].faces) :
                        /\ b.kind = "face"
                        /\ b.url = font.files[k].url
                        /\ b.unicodeRange = RangeFor(font.config, font.files[k].subset)

\* the classes of a list of utility classes that have the given name
ClassesNamed(utils, names) == SelectSeq(utils, LAMBDA c : c.class \in names)

\* the setting of an axis is the given value or, for an axis the class does not
\* set, the default the metadata has for it
SettingsAre(settings, axes, set) ==
    \A tag \in IconAxes :
        IF tag \in DOMAIN set THEN settings[tag] = set[tag]
        ELSE tag \in DOMAIN axes => settings[tag] = axes[tag].default

\* C22: with utility classes enabled and a font of the icon package among the
\* results, the stylesheet a run has written has one base class, one filled
\* class, the five weight classes thin, light, regular, medium and bold and the
\* four size classes 20, 24, 40 and 48, whatever the metadata of the package;
\* every variant sets all four axes, to its own value or to the default of the
\* metadata.
C22_FixedBatteryOfUtilities ==
    (pc = "docs" /\ cssFile # <<>> /\ options.utilities
        /\ \E i \in 1..Len(processedFonts) :
              IsMaterialSymbols(processedFonts[i].config.package)) =>
        LET utils == cssFile[1].utils
            font == SelectSeq(processedFonts,
                              LAMBDA f : IsMaterialSymbols(f.config.package))[1]
            axes == font.metadata.axes
            weights == [thin |-> 100, light |-> 300, regular |-> 400, medium |-> 500,
                        bold |-> 700]
        IN  /\ Len(ClassesNamed(utils, {"base"})) = 1
            /\ Len(ClassesNamed(utils, {"filled"})) = 1
            /\ \A c \in Range(ClassesNamed(utils, {"filled"})) :
                  SettingsAre(c.settings, axes, [FILL |-> 1])
            /\ \A w \in DOMAIN weights :
                  /\ Len(ClassesNamed(utils, {w})) = 1
                  /\ SettingsAre(ClassesNamed(utils, {w})[1].settings, axes,
                                 [wght |-> weights[w]])
            /\ \A size \in {20, 24, 40, 48} :
                  LET cs == SelectSeq(ClassesNamed(utils, {"size"}), LAMBDA c : c.size = size)
                  IN  /\ Len(cs) = 1
                      /\ SettingsAre(cs[1].settings, axes, [opsz |-> size])
            /\ Len(utils) = 11

(***************************************************************************)
(* Claims on the cache and the runs after the first                        *)
(***************************************************************************)
\* C23: a font that failed with package-not-found in the run that wrote the
\* snapshot is processed again once its package is installed: a run does not
\* take the cache-hit path while the snapshot records such a failure for a
\* package that is now in node_modules.
C23_FailedFontIsRetried ==
    (pc = "idle" /\ outcome = "hit") =>
        \A i \in 1..Len(cacheFile.fonts) :
            LET font == cacheFile.fonts[i]
            IN  ~(/\ font.errors = <<[kind |-> "PackageNotFound",
                                      package |-> font.config.package]>>
                  /\ disk[font.config.package].loc # "none")

\* C24: a processAll that overlaps another one on the same FontProcessor
\* still returns exactly one ProcessedFont for each configured font, in
\* priority order
C24_OverlappingRunsKeepResults ==
    (pc = "processing" /\ idx > Len(sortedFonts)) =>
        /\ Len(processedFonts) = Len(sortedFonts)
        /\ \A i \in 1..Len(sortedFonts) : processedFonts[i].config = sortedFonts[i]

\* C25: the files of a processed font never hold the same source file twice,
\* whatever the request (variable or static, any axes or weights) and whatever
\* the package holds.
C25_NoSourceFileTwice ==
    \A i \in 1..Len(processedFonts) :
        LET files == processedFonts[i].files
        IN  \A j \in 1..Len(files) : \A k \in (j + 1)..Len(files) :
                files[j].fileName # files[k].fileName

\* C26: the step of isCacheValid (the run leaving "start") and the step of
\* updateCache (the run leaving "cache") leave every FontRequest as it was,
\* the order of its weights, styles, subsets and axes included.
C26_CacheLeavesRequestsUnchanged ==
    [][(pc \in {"start", "cache"}) => (fonts' = fonts)]_vars

\* config.subsets || metadata.subsets || ["latin"]
EffectiveSubsets(font) ==
    IF IsDef(font.config.subsets) THEN font.config.subsets[1]
    ELSE IF IsDef(font.metadata.subsets) THEN font.metadata.subsets[1] ELSE <<"latin">>

\* C27: the subset recorded on each resolved file of a processed font is one
\* of the effective subsets of its request, the hyphenated names latin-ext and
\* cyrillic-ext included.
C27_RecordedSubsetIsRequested ==
    \A i \in 1..Len(processedFonts) :
        LET font == processedFonts[i]
        IN  ~HasErrors(font) =>
                \A k \in 1..Len(font.files) :
                    font.files[k].subset \in Range(EffectiveSubsets(font))

\* config.weights || metadata.weights || [400]
EffectiveWeights(font) ==
    IF IsDef(font.config.weights) THEN font.config.weights[1]
    ELSE IF IsDef(font.metadata.weights) THEN font.metadata.weights[1] ELSE <<400>>

\* C28: for a static font every resolved file whose name carries a numeric
\* weight has that weight among the effective weights of the request.
C28_StaticWeightIsRequested ==
    \A i \in 1..Len(processedFonts) :
        LET font == processedFonts[i]
        IN  (~HasErrors(font) /\ ~font.config.variable) =>
                \A k \in 1..Len(font.files) :
                    IsDef(font.files[k].weight) =>
                        font.files[k].weight[1] \in Range(EffectiveWeights(font))

\* fontProcessor.getProcessedFonts()
getProcessedFonts == processedFonts

\* font.files.find((f) => f.subset === "latin" && f.style === "normal") || font.files[0]
MainFile(files) ==
    LET latinNormal == SelectSeq(files, LAMBDA f : f.subset = "latin" /\ f.style = "normal")
    IN  IF latinNormal # <<>> THEN latinNormal[1] ELSE files[1]

\* the href of the preload links the app:resolved hook pushes for a list of
\* processed fonts
PreloadLinks(results) ==
    LET preloaded == SelectSeq(results,
                               LAMBDA font : font.config.preload = <<TRUE>> /\ Len(font.files) > 0)
    IN  [i \in 1..Len(preloaded) |-> MainFile(preloaded[i].files).url]

\* C29: after a run that took the cache-hit path getProcessedFonts returns the
\* fonts and published files of the run that wrote the snapshot, so the
\* preload links are the ones of that run.
C29_CacheHitKeepsProcessedFonts ==
    (pc = "idle" /\ outcome = "hit") =>
        /\ Len(getProcessedFonts) = Len(cacheFile.fonts)
        /\ \A i \in 1..Len(cacheFile.fonts) :
              /\ getProcessedFonts[i].config.package = cacheFile.fonts[i].config.package
              /\ Len(getProcessedFonts[i].files) = Len(cacheFile.fonts[i].files)
              /\ \A k \in 1..Len(cacheFile.fonts[i].files) :
                    getProcessedFonts[i].files[k].url = cacheFile.fonts[i].files[k].url
        /\ PreloadLinks(getProcessedFonts) = PreloadLinks(cacheFile.fonts)

\* C30: once clearCache has returned, its writes having succeeded, there is no
\* cache file and the next isCacheValid returns false, whatever the cache file
\* held before, a file that is not JSON included.
C30_ClearCacheLeavesNoFile ==
    (pc \in {"start", "idle", "failed"}) =>
        LET cleared == clearCache(cacheFile, TRUE, TRUE)
        IN  /\ cleared = NoCacheFile
            /\ ~isCacheValid(cleared, cacheMtime, cacheTTL, now, fonts, disk, cwd, rootDir)

====
